---- MODULE Spec2Model ----
(***************************************************************************)
(* Authenticated reverse proxy for container web UIs                       *)
(* (app/routers/proxy.py, app/services/auth.py, app/models/database.py).   *)
(*                                                                         *)
(* One request is followed through its handler, one step per await point,  *)
(* while the instance registry and the clock change underneath it.         *)
(* Strings that the code takes apart are kept as sequences of their parts: *)
(*   "Bearer <t>"               is  <<"Bearer ", t>>                        *)
(*   "proxy_token_<id>"         is  <<"proxy_token_", id>>                  *)
(*   "/api/instances/<id>/ui"   is  <<"/api/instances/", id, "/ui">>        *)
(***************************************************************************)
EXTENDS Integers, Sequences, FiniteSets, TLC

VARIABLES
  instances,   \* table miner_instances: a set of rows, unique by id
  now,         \* wall clock, in units of the token lifetime
  req,         \* the request being handled: its inputs and the handler's locals
  call,        \* one application of a pure step of the relay: its input and result
  relay,       \* one accepted WebSocket session: its two relay tasks and their frames
  pool,        \* the shared upstream HTTP client and the HTTP relays that use it
  ipban,       \* the IP ban service, the table banned_ips and the service's clock
  codes,       \* the table registration_codes, the users' limits and the codes' clock
  admin,       \* the tables the /admin endpoints read and write, and their last answer
  tracker      \* the IP tracker service and the table connected_ips

vars == <<instances, now, req, call, relay, pool, ipban, codes, admin, tracker>>

\* the state of the services beside the proxy handlers
services == <<pool, ipban, codes, admin, tracker>>

\* the request side of the state
gate == <<instances, now, req>>

\* the state the request handlers' steps leave alone
aux == <<call, relay, services>>

\* Python's None; also the empty result of dict.get without default.
None == "none"

\* no pure step has been applied
NoCall == [op |-> "none"]

\* no WebSocket session is relaying
NoRelay == [pc |-> "none"]

\* a service that takes no part in the specification at hand
Unused == [on |-> FALSE]

ServicesAtRest ==
  pool = Unused /\ ipban = Unused /\ codes = Unused /\ admin = Unused /\ tracker = Unused

(***************************************************************************)
(* Bounds of the model                                                     *)
(***************************************************************************)
\* The clock runs 1..MaxTime.
MaxTime == 2

\* A query string has at most MaxParams parameters.
MaxParams == 3

\* A request or a response has at most MaxHeaders header lines.
MaxHeaders == 3

\* An HTML document has at most MaxDoc lexemes.
MaxDoc == 3

\* Each side of a WebSocket session sends at most MaxFrames frames.
MaxFrames == 2

\* At most MaxClients upstream HTTP clients are created.
MaxClients == 3

\* The clock of the IP ban service runs 0..MaxClock, in units of 300 s.
MaxClock == 12

\* At most MaxHits 404 hits of one IP fall into one sliding window.
MaxHits == 10

\* At most MaxCodes invite codes are ever created.
MaxCodes == 3

\* The clock of the invite codes runs 0..MaxCodeClock, in hours.
MaxCodeClock == 1

\* An admin sets max_invite_codes to 0..MaxInvite.
MaxInvite == 2

\* At most MaxRecords requests are recorded by the IP tracker.
MaxRecords == 3

(***************************************************************************)
(* Identity store and tokens                                               *)
(***************************************************************************)
UserIds == {"u1", "u2", "adm"}

\* table users: "u1" and "u2" are regular users, "adm" is an admin
users == [u \in UserIds |-> [id |-> u, role |-> IF u = "adm" THEN "admin" ELSE "user"]]

\* the value of current_user before verify_token has returned
NoUser == [id |-> None, role |-> None]

\* User.is_admin
is_admin(user) == user.role = "admin"

\* Tokens a client can present.  Each stands for a JWT string:
\*   tU1, tU2, tAdm  signed, sub = that user, exp = TokenLife
\*   tGhost          signed, sub = an id that is not in table users
\*   tNoSub          signed, no sub claim
\*   tBad            malformed or signed with another key
Tokens == {"tU1", "tU2", "tAdm", "tGhost", "tNoSub", "tBad"}

\* create_access_token: exp = issue time + JWT_EXPIRE_MINUTES; every token of
\* the model is issued at time 0 and the clock counts in token lifetimes.
TokenLife == 1

TokenExp(token) == TokenLife

TokenSub(token) ==
  CASE token = "tU1" -> "u1"
    [] token = "tU2" -> "u2"
    [] token = "tAdm" -> "adm"
    [] token = "tGhost" -> "u9"
    [] OTHER -> None

\* jwt.decode(token, JWT_SECRET, algorithms=[JWT_ALGORITHM]): the payload, or
\* JWTError for a malformed token, a bad signature or exp in the past.
JwtDecodes(token, t) ==
  /\ token \in Tokens
  /\ token # "tBad"
  /\ ~(TokenExp(token) < t)

\* verify_token: the User, or HTTPException(401, "Invalid or expired token").
verify_token(token, t) ==
  IF ~JwtDecodes(token, t)
    THEN [ok |-> FALSE, user |-> NoUser, status |-> 401, detail |-> "Invalid or expired token"]
  ELSE IF TokenSub(token) = None
    THEN [ok |-> FALSE, user |-> NoUser, status |-> 401, detail |-> "Invalid or expired token"]
  ELSE IF TokenSub(token) \notin UserIds
    THEN [ok |-> FALSE, user |-> NoUser, status |-> 401, detail |-> "Invalid or expired token"]
  ELSE [ok |-> TRUE, user |-> users[TokenSub(token)], status |-> 0, detail |-> ""]

(***************************************************************************)
(* Instance registry                                                       *)
(***************************************************************************)
InstanceIds == {"I1", "I2"}

InstanceState == {"stopped", "running", "stopping"}

\* MinerInstance.port is a nullable integer
Ports == {"7000", "7100"}

\* I2 is owned by u2 and stays running on port 7100 throughout.
RowI2 == [id |-> "I2", user_id |-> "u2", status |-> "running", port |-> "7100"]

\* Every row the lifecycle manager can leave for I1 (owner u1): any status with
\* any port, port NULL included.
RowsI1 == [id : {"I1"}, user_id : {"u1"}, status : InstanceState, port : {None} \cup Ports]

\* _resolve_port with the owner filter left out of the query (mutant).
_resolve_port_no_owner_filter(instance_id, current_user, db) ==
  LET result == {r \in db : r.id = instance_id}
  IN  IF result = {}
        THEN [ok |-> FALSE, port |-> None, status |-> 404, detail |-> "Instance not found"]
      ELSE LET instance == CHOOSE r \in result : TRUE
           IN  IF instance.status # "running" \/ instance.port = None
                 THEN [ok |-> FALSE, port |-> None, status |-> 503,
                       detail |-> "Instance is not running"]
                 ELSE [ok |-> TRUE, port |-> instance.port, status |-> 0, detail |-> ""]

\* _resolve_port that tests the status but not the port (mutant).
_resolve_port_no_port_check(instance_id, current_user, db) ==
  LET result == IF is_admin(current_user)
                  THEN {r \in db : r.id = instance_id}
                  ELSE {r \in db : r.id = instance_id /\ r.user_id = current_user.id}
  IN  IF result = {}
        THEN [ok |-> FALSE, port |-> None, status |-> 404, detail |-> "Instance not found"]
      ELSE LET instance == CHOOSE r \in result : TRUE
           IN  IF instance.status # "running"
                 THEN [ok |-> FALSE, port |-> None, status |-> 503,
                       detail |-> "Instance is not running"]
                 ELSE [ok |-> TRUE, port |-> instance.port, status |-> 0, detail |-> ""]

\* _resolve_port that returns the port of a row whatever its status (mutant).
_resolve_port_any_status(instance_id, current_user, db) ==
  LET result == IF is_admin(current_user)
                  THEN {r \in db : r.id = instance_id}
                  ELSE {r \in db : r.id = instance_id /\ r.user_id = current_user.id}
  IN  IF result = {}
        THEN [ok |-> FALSE, port |-> None, status |-> 404, detail |-> "Instance not found"]
      ELSE LET instance == CHOOSE r \in result : TRUE
           IN  IF instance.port = None
                 THEN [ok |-> FALSE, port |-> None, status |-> 503,
                       detail |-> "Instance is not running"]
                 ELSE [ok |-> TRUE, port |-> instance.port, status |-> 0, detail |-> ""]

\* _resolve_port: the container's host port, or HTTPException 404 / 503.
_resolve_port(instance_id, current_user, db) ==
  LET result == IF is_admin(current_user)
                  THEN {r \in db : r.id = instance_id}
                  ELSE {r \in db : r.id = instance_id /\ r.user_id = current_user.id}
  IN  IF result = {}
        THEN [ok |-> FALSE, port |-> None, status |-> 404, detail |-> "Instance not found"]
      ELSE LET instance == CHOOSE r \in result : TRUE
           IN  IF instance.status # "running" \/ instance.port = None
                 THEN [ok |-> FALSE, port |-> None, status |-> 503,
                       detail |-> "Instance is not running"]
                 ELSE [ok |-> TRUE, port |-> instance.port, status |-> 0, detail |-> ""]

(***************************************************************************)
(* Requests                                                                *)
(***************************************************************************)
\* cookie_name = f"proxy_token_{instance_id}"
CookieName(instance_id) == <<"proxy_token_", instance_id>>

CookieNames == {CookieName(i) : i \in InstanceIds}

\* ui_base and the cookie path: f"/api/instances/{instance_id}/ui"
UiBase(instance_id) == <<"/api/instances/", instance_id, "/ui">>

\* request.cookies: cookie name -> value; None for a cookie that is not sent
NoCookies == [n \in CookieNames |-> None]

\* The cookies a client sends: none, or one proxy_token_<id> cookie with any token.
CookieJars == {NoCookies} \cup {[NoCookies EXCEPT ![n] = t] : n \in CookieNames, t \in Tokens}

\* The Authorization header: absent (""), another scheme, or "Bearer <t>" with
\* any token, the empty one included.
AuthHeaders == {<<>>, <<"Basic ", "x">>} \cup {<<"Bearer ", t>> : t \in Tokens \cup {""}}

\* The token query parameter: absent, empty (?token=) or a token.
QueryTokens == {None, ""} \cup Tokens

\* A lookup that takes the proxy_token cookie of any instance (mutant).
GetAnyOrEmpty(d, key) ==
  IF \E k \in DOMAIN d : d[k] # None
    THEN d[CHOOSE k \in DOMAIN d : d[k] # None]
    ELSE ""

\* dict.get(key, ""): the value, or "" when the key is missing
GetOrEmpty(d, key) == IF key \in DOMAIN d /\ d[key] # None THEN d[key] ELSE ""

\* str.startswith("Bearer ")
StartsWithBearer(auth_header) == Len(auth_header) >= 1 /\ auth_header[1] = "Bearer "

\* Response.set_cookie(key=cookie_name, value=jwt_token, httponly=True, secure=True,
\*                     samesite="lax", path=f"/api/instances/{instance_id}/ui", max_age=3600)
SessionCookie(instance_id, jwt_token) ==
  [key |-> CookieName(instance_id), value |-> jwt_token, httponly |-> TRUE, secure |-> TRUE,
   samesite |-> "lax", path |-> UiBase(instance_id), max_age |-> 3600]

\* a response without Set-Cookie of the proxy
NoSetCookie ==
  [key |-> <<>>, value |-> "", httponly |-> FALSE, secure |-> FALSE,
   samesite |-> "", path |-> <<>>, max_age |-> 0]

\* What the upstream does with one HTTP request: it answers (with its own status),
\* refuses the connection, times out, or breaks the exchange in another way.
HttpOutcomes ==
  {[kind |-> "response", status |-> 200], [kind |-> "response", status |-> 502],
   [kind |-> "ConnectError", status |-> 0], [kind |-> "TimeoutException", status |-> 0],
   [kind |-> "ReadError", status |-> 0]}

\* What the upstream does with one WebSocket dial.
WsOutcomes == {"connected", "refused"}

\* No request yet.  The last three fields are history, not handler state:
\* what the upstream did with this request, whether the request is the return
\* of a client with the cookie it was given, and who that client was then.
Idle ==
  [kind |-> "none", pc |-> "idle", instance_id |-> None, auth_header |-> <<>>,
   query_token |-> None, cookies |-> NoCookies,
   jwt_token |-> "", token_from_url |-> FALSE, current_user |-> NoUser, port |-> None,
   contacts |-> 0, status |-> 0, detail |-> "", origin |-> None, set_cookie |-> NoSetCookie,
   accepted |-> FALSE, close_code |-> 0, reason |-> "",
   upstream |-> None, followup |-> FALSE, first_user |-> NoUser, first_port |-> None]

\* A request as it enters its handler.
NewRequest(kind, instance_id, auth_header, query_token, cookies) ==
  [Idle EXCEPT !.kind = kind, !.pc = "start", !.instance_id = instance_id,
               !.auth_header = auth_header, !.query_token = query_token,
               !.cookies = cookies]

\* return JSONResponse / raise HTTPException: the handler ends with a response
\* the proxy made itself
Respond(r, status, detail) ==
  [r EXCEPT !.pc = "done", !.status = status, !.detail = detail, !.origin = "proxy"]

(***************************************************************************)
(* proxy_http                                                              *)
(***************************************************************************)
\* The credential chain with the query parameter tried before the header (mutant).
HttpCredentialQueryFirst(auth_header, query_token, cookies, cookie_name) ==
  LET q == IF query_token = None THEN "" ELSE query_token
  IN  IF q # ""
        THEN [jwt_token |-> q, token_from_url |-> TRUE]
      ELSE IF StartsWithBearer(auth_header)
        THEN [jwt_token |-> auth_header[2], token_from_url |-> FALSE]
      ELSE [jwt_token |-> GetOrEmpty(cookies, cookie_name), token_from_url |-> FALSE]

\* The credential chain that passes over a bearer header with an empty token (mutant).
HttpCredentialFirstNonEmpty(auth_header, query_token, cookies, cookie_name) ==
  IF StartsWithBearer(auth_header) /\ auth_header[2] # ""
    THEN [jwt_token |-> auth_header[2], token_from_url |-> FALSE]
  ELSE LET q == IF query_token = None THEN "" ELSE query_token
       IN  IF q # ""
             THEN [jwt_token |-> q, token_from_url |-> TRUE]
             ELSE [jwt_token |-> GetOrEmpty(cookies, cookie_name), token_from_url |-> FALSE]

\* The credential chain that flags a cookie token as coming from the URL (mutant).
HttpCredentialCookieFromUrl(auth_header, query_token, cookies, cookie_name) ==
  IF StartsWithBearer(auth_header)
    THEN [jwt_token |-> auth_header[2], token_from_url |-> FALSE]
  ELSE LET q == IF query_token = None THEN "" ELSE query_token
       IN  IF q # ""
             THEN [jwt_token |-> q, token_from_url |-> TRUE]
             ELSE [jwt_token |-> GetOrEmpty(cookies, cookie_name), token_from_url |-> TRUE]

\* lines 102-113: Authorization header > ?token= query param > session cookie
HttpCredential(auth_header, query_token, cookies, cookie_name) ==
  IF StartsWithBearer(auth_header)
    THEN [jwt_token |-> auth_header[2], token_from_url |-> FALSE]
  ELSE LET q == IF query_token = None THEN "" ELSE query_token
       IN  IF q # ""
             THEN [jwt_token |-> q, token_from_url |-> TRUE]
             ELSE [jwt_token |-> GetOrEmpty(cookies, cookie_name), token_from_url |-> FALSE]

\* lines 102-117: pick the credential; 401 when there is none
proxy_http_credential(r) ==
  LET cookie_name == CookieName(r.instance_id)
      c == HttpCredential(r.auth_header, r.query_token, r.cookies, cookie_name)
      r1 == [r EXCEPT !.jwt_token = c.jwt_token, !.token_from_url = c.token_from_url]
  IN  IF r1.jwt_token = ""
        THEN Respond(r1, 401, "Not authenticated")
        ELSE [r1 EXCEPT !.pc = "verify"]

\* a server that remembers the cookies it issued and lets their holder in
proxy_http_verify_remembers(r, t) ==
  LET v == verify_token(r.jwt_token, t)
  IN  IF r.followup /\ r.first_user # NoUser
        THEN [r EXCEPT !.pc = "resolve", !.current_user = r.first_user]
      ELSE IF ~v.ok
        THEN Respond(r, 401, "Not authenticated")
        ELSE [r EXCEPT !.pc = "resolve", !.current_user = v.user]

\* lines 119-123: verify_token; every exception gives 401
proxy_http_verify(r, t) ==
  LET v == verify_token(r.jwt_token, t)
  IN  IF ~v.ok
        THEN Respond(r, 401, "Not authenticated")
        ELSE [r EXCEPT !.pc = "resolve", !.current_user = v.user]

\* line 125 with the failure of _resolve_port ignored (mutant).
proxy_http_resolve_unchecked(r, db) ==
  LET p == _resolve_port(r.instance_id, r.current_user, db)
  IN  [r EXCEPT !.pc = "upstream", !.port = p.port]

\* line 125: _resolve_port; its HTTPException leaves the handler
proxy_http_resolve(r, db) ==
  LET p == _resolve_port(r.instance_id, r.current_user, db)
  IN  IF ~p.ok
        THEN Respond(r, p.status, p.detail)
        ELSE [r EXCEPT !.pc = "upstream", !.port = p.port]

\* lines 127-236 with the cookie set on every upstream answer (mutant).
proxy_http_forward_cookie_always(r, outcome) ==
  LET r1 == [r EXCEPT !.contacts = r.contacts + 1]
  IN  CASE outcome.kind = "response" ->
             [r1 EXCEPT !.pc = "done", !.status = outcome.status, !.origin = "upstream",
                        !.set_cookie = SessionCookie(r.instance_id, r.jwt_token)]
        [] outcome.kind = "ConnectError" -> Respond(r1, 502, "Container not reachable")
        [] outcome.kind = "TimeoutException" -> Respond(r1, 504, "Container timed out")
        [] OTHER -> Respond(r1, 500, "Internal Server Error")

\* lines 127-236 with the two except clauses exchanged (mutant).
proxy_http_forward_codes_swapped(r, outcome) ==
  LET r1 == [r EXCEPT !.contacts = r.contacts + 1]
  IN  CASE outcome.kind = "response" ->
             [r1 EXCEPT !.pc = "done", !.status = outcome.status, !.origin = "upstream",
                        !.set_cookie = IF r.token_from_url
                                         THEN SessionCookie(r.instance_id, r.jwt_token)
                                         ELSE NoSetCookie]
        [] outcome.kind = "ConnectError" -> Respond(r1, 504, "Container timed out")
        [] outcome.kind = "TimeoutException" -> Respond(r1, 502, "Container not reachable")
        [] OTHER -> Respond(r1, 500, "Internal Server Error")

\* lines 127-236 with the request issued again after a connect failure (mutant).
proxy_http_forward_retry(r, outcome) ==
  LET r1 == [r EXCEPT !.contacts = r.contacts + 1]
  IN  CASE outcome.kind = "response" ->
             [r1 EXCEPT !.pc = "done", !.status = outcome.status, !.origin = "upstream",
                        !.set_cookie = IF r.token_from_url
                                         THEN SessionCookie(r.instance_id, r.jwt_token)
                                         ELSE NoSetCookie]
        [] outcome.kind = "ConnectError" ->
             IF r.contacts = 0 THEN r1 ELSE Respond(r1, 502, "Container not reachable")
        [] outcome.kind = "TimeoutException" -> Respond(r1, 504, "Container timed out")
        [] OTHER -> Respond(r1, 500, "Internal Server Error")

\* lines 127-236: one client.stream call; the upstream's answer is passed on,
\* with the session cookie when the token came from the URL.
proxy_http_forward(r, outcome) ==
  LET r1 == [r EXCEPT !.contacts = r.contacts + 1]
  IN  CASE outcome.kind = "response" ->
             [r1 EXCEPT !.pc = "done", !.status = outcome.status, !.origin = "upstream",
                        !.set_cookie = IF r.token_from_url
                                         THEN SessionCookie(r.instance_id, r.jwt_token)
                                         ELSE NoSetCookie]
        [] outcome.kind = "ConnectError" -> Respond(r1, 502, "Container not reachable")
        [] outcome.kind = "TimeoutException" -> Respond(r1, 504, "Container timed out")
        [] OTHER -> Respond(r1, 500, "Internal Server Error")

(***************************************************************************)
(* proxy_websocket                                                         *)
(***************************************************************************)
\* dict.get(key): the value, or None when the key is missing
Get(d, key) == IF key \in DOMAIN d THEN d[key] ELSE None

\* Python truthiness of an optional string
Falsy(x) == x = None \/ x = ""

\* line 276: query_params.get("token") or cookies.get(f"proxy_token_{instance_id}")
WsCredential(query_token, cookies, cookie_name) ==
  IF ~Falsy(query_token) THEN query_token ELSE Get(cookies, cookie_name)

\* websocket.close(code, reason) before accept: the handshake is refused
Reject(r, code, reason) ==
  [r EXCEPT !.pc = "done", !.close_code = code, !.reason = reason]

\* finally: websocket.close() of an accepted socket (code 1000)
CloseAccepted(r) == [r EXCEPT !.pc = "done", !.close_code = 1000]

\* lines 276-279: pick the credential; close 4001 when there is none
proxy_websocket_credential(r) ==
  LET token == WsCredential(r.query_token, r.cookies, CookieName(r.instance_id))
  IN  IF Falsy(token)
        THEN Reject(r, 4001, "Missing token")
        ELSE [r EXCEPT !.pc = "verify", !.jwt_token = token]

\* a handler that accepts the socket before it looks at the token
proxy_websocket_verify_accept_first(r, t) ==
  LET v == verify_token(r.jwt_token, t)
  IN  IF ~v.ok
        THEN [Reject(r, 4003, "Unauthorized") EXCEPT !.accepted = TRUE]
        ELSE [r EXCEPT !.pc = "resolve", !.current_user = v.user]

\* lines 281-285: verify_token; its HTTPException closes 4003
proxy_websocket_verify(r, t) ==
  LET v == verify_token(r.jwt_token, t)
  IN  IF ~v.ok
        THEN Reject(r, 4003, "Unauthorized")
        ELSE [r EXCEPT !.pc = "resolve", !.current_user = v.user]

\* a handler with one close code and one reason for every refusal
proxy_websocket_resolve_one_code(r, db) ==
  LET p == _resolve_port(r.instance_id, r.current_user, db)
  IN  IF ~p.ok
        THEN Reject(r, 4003, "Unauthorized")
        ELSE [r EXCEPT !.pc = "accept", !.port = p.port]

\* lines 287-291: _resolve_port; its HTTPException closes 4004 with the detail
proxy_websocket_resolve(r, db) ==
  LET p == _resolve_port(r.instance_id, r.current_user, db)
  IN  IF ~p.ok
        THEN Reject(r, 4004, p.detail)
        ELSE [r EXCEPT !.pc = "accept", !.port = p.port]

\* lines 293-303: build the upstream URL, accept the client
proxy_websocket_accept(r) == [r EXCEPT !.pc = "dial", !.accepted = TRUE]

\* lines 305-312 and 355-361: one websockets.connect; a failed dial is logged
\* and the client socket is closed
proxy_websocket_dial(r, outcome) ==
  LET r1 == [r EXCEPT !.contacts = r.contacts + 1]
  IN  IF outcome = "connected"
        THEN [r1 EXCEPT !.pc = "relay"]
        ELSE CloseAccepted(r1)

\* lines 341-361: one direction has ended, the other is cancelled, the client
\* socket is closed
proxy_websocket_finish(r) == CloseAccepted(r)

(***************************************************************************)
(* Actions                                                                 *)
(***************************************************************************)
TypeOK ==
  /\ instances \subseteq (RowsI1 \cup {RowI2})
  /\ now \in 1..MaxTime
  /\ req.kind \in {"none", "http", "ws"}

Init ==
  /\ instances = {RowI2}
  /\ now = 1
  /\ req = Idle
  /\ call = NoCall
  /\ relay = NoRelay
  /\ ServicesAtRest

\* Time passes.
Tick ==
  /\ now < MaxTime
  /\ now' = now + 1
  /\ UNCHANGED <<instances, req, aux>>

\* The lifecycle manager creates, starts, stops or deletes instance I1:
\* the row is written with any status and port, or removed.
RegistryWrite ==
  /\ \E s \in {{}} \cup {{row} : row \in RowsI1} :
       /\ instances' = {RowI2} \cup s
       /\ instances' # instances
  /\ UNCHANGED <<now, req, aux>>

\* No handler is running and no response is outstanding.
Free == req.pc = "idle"

\* The client has taken the response (or the close) and goes away.
Return ==
  /\ req.pc = "done"
  /\ req' = Idle
  /\ UNCHANGED <<instances, now, aux>>

\* A client sends an HTTP request; the handler runs to its first await.
HttpArrive ==
  /\ Free
  /\ \E i \in InstanceIds, h \in AuthHeaders, q \in QueryTokens, c \in CookieJars :
       req' = proxy_http_credential(NewRequest("http", i, h, q, c))
  /\ UNCHANGED <<instances, now, aux>>

HttpVerify ==
  /\ req.kind = "http" /\ req.pc = "verify"
  /\ req' = proxy_http_verify(req, now)
  /\ UNCHANGED <<instances, now, aux>>

HttpResolve ==
  /\ req.kind = "http" /\ req.pc = "resolve"
  /\ req' = proxy_http_resolve(req, instances)
  /\ UNCHANGED <<instances, now, aux>>

HttpUpstream ==
  /\ req.kind = "http" /\ req.pc = "upstream"
  /\ \E o \in HttpOutcomes :
       req' = [proxy_http_forward(req, o) EXCEPT !.upstream = o.kind]
  /\ UNCHANGED <<instances, now, aux>>

\* A client opens a WebSocket; the handler runs to its first await.
WsArrive ==
  /\ Free
  /\ \E i \in InstanceIds, q \in QueryTokens, c \in CookieJars :
       req' = proxy_websocket_credential(NewRequest("ws", i, <<>>, q, c))
  /\ UNCHANGED <<instances, now, aux>>

WsVerify ==
  /\ req.kind = "ws" /\ req.pc = "verify"
  /\ req' = proxy_websocket_verify(req, now)
  /\ UNCHANGED <<instances, now, aux>>

WsResolve ==
  /\ req.kind = "ws" /\ req.pc = "resolve"
  /\ req' = proxy_websocket_resolve(req, instances)
  /\ UNCHANGED <<instances, now, aux>>

WsAccept ==
  /\ req.kind = "ws" /\ req.pc = "accept"
  /\ req' = proxy_websocket_accept(req)
  /\ UNCHANGED <<instances, now, aux>>

WsDial ==
  /\ req.kind = "ws" /\ req.pc = "dial"
  /\ \E o \in WsOutcomes :
       req' = [proxy_websocket_dial(req, o) EXCEPT !.upstream = o]
  /\ UNCHANGED <<instances, now, aux>>

WsFinish ==
  /\ req.kind = "ws" /\ req.pc = "relay"
  /\ req' = proxy_websocket_finish(req)
  /\ UNCHANGED <<instances, now, aux>>

\* The client that received a Set-Cookie comes back with that cookie and nothing
\* else: to the same instance (a browser, which honours the cookie path) or to
\* another one (a client that does not), over HTTP or as a WebSocket.
FollowUp ==
  /\ req.kind = "http" /\ req.pc = "done" /\ req.set_cookie # NoSetCookie
  /\ \E k \in {"http", "ws"}, i \in InstanceIds :
       LET c == [NoCookies EXCEPT ![req.set_cookie.key] = req.set_cookie.value]
           n == [NewRequest(k, i, <<>>, None, c) EXCEPT !.followup = TRUE,
                                                       !.first_user = req.current_user,
                                                       !.first_port = req.port]
       IN  req' = IF k = "http" THEN proxy_http_credential(n)
                                ELSE proxy_websocket_credential(n)
  /\ UNCHANGED <<instances, now, aux>>

Next ==
  \/ Tick
  \/ RegistryWrite
  \/ HttpArrive
  \/ HttpVerify
  \/ HttpResolve
  \/ HttpUpstream
  \/ WsArrive
  \/ WsVerify
  \/ WsResolve
  \/ WsAccept
  \/ WsDial
  \/ WsFinish
  \/ FollowUp
  \/ Return

Spec == Init /\ [][Next]_vars

(***************************************************************************)
(* Vocabulary of the properties                                            *)
(***************************************************************************)
Http(r) == r.kind = "http"

Ws(r) == r.kind = "ws"

\* the value of the cookie proxy_token_<instance_id> of the request, or None
CookieFor(r) == r.cookies[<<"proxy_token_", r.instance_id>>]

\* the request names none of the three credential sources
NoCredential(r) ==
  /\ ~StartsWithBearer(r.auth_header)
  /\ r.query_token = None
  /\ CookieFor(r) = None

\* the tokens that name a user of the identity store
UserTokens == {"tU1", "tU2", "tAdm"}

\* the rows of instance i that principal user may see
Visible(i, user, db) ==
  {r \in db : r.id = i /\ (user.role = "admin" \/ r.user_id = user.id)}

NotFound == [ok |-> FALSE, port |-> None, status |-> 404, detail |-> "Instance not found"]

NotRunning == [ok |-> FALSE, port |-> None, status |-> 503, detail |-> "Instance is not running"]

\* instance ids a request can name: those of the model and one that never exists
AnyInstanceIds == InstanceIds \cup {"I9"}

(***************************************************************************)
(* C1                                                                      *)
(***************************************************************************)
\* C1: the upstream is contacted (or about to be: the handler is past
\* _resolve_port) only when, in this request, a credential was found,
\* verify_token returned the user of that credential and _resolve_port returned
\* a port; a request with no bearer header, no token parameter and no
\* proxy_token_<id> cookie ends with 401 (HTTP) or close 4001 without accept
\* (WebSocket) and no upstream contact.
C1_GateBeforeUpstream ==
  /\ (req.contacts > 0 \/ req.pc \in {"upstream", "accept", "dial", "relay"}) =>
       /\ req.jwt_token \in UserTokens
       /\ req.current_user = users[TokenSub(req.jwt_token)]
       /\ req.port \in Ports
  /\ (Http(req) /\ NoCredential(req)) =>
       /\ req.pc = "done" /\ req.status = 401 /\ req.origin = "proxy"
       /\ req.contacts = 0 /\ req.upstream = None
  /\ (Ws(req) /\ NoCredential(req)) =>
       /\ req.pc = "done" /\ req.close_code = 4001 /\ ~req.accepted
       /\ req.contacts = 0 /\ req.upstream = None

\* an HTTP request that reached the upstream and was answered
C1_Witness == Http(req) /\ req.pc = "done" /\ req.contacts = 1 /\ req.status = 200

(***************************************************************************)
(* C2                                                                      *)
(***************************************************************************)
\* C2: in every registry state, for every non-admin user and every instance id
\* with no row owned by that user, _resolve_port fails with 404 "Instance not
\* found": the same whether the id has no row or a row of another owner, and
\* whatever that row's status and port.
C2_NotOwnedIsNotFound ==
  \A u \in UserIds, i \in AnyInstanceIds :
    (users[u].role # "admin" /\ ~(\E r \in instances : r.id = i /\ r.user_id = u)) =>
      _resolve_port(i, users[u], instances) = NotFound

\* u2 asked for I1, which u1 owns and which is stopped, and was answered 404
C2_Witness ==
  /\ Http(req) /\ req.pc = "done" /\ req.status = 404 /\ req.detail = "Instance not found"
  /\ req.current_user.id = "u2" /\ req.instance_id = "I1"
  /\ \E r \in instances : r.id = "I1" /\ r.user_id = "u1" /\ r.status = "stopped"

(***************************************************************************)
(* C3                                                                      *)
(***************************************************************************)
\* C3: in every registry state, for every user and instance id, _resolve_port
\* returns port p exactly when a row with that id exists that the user owns or
\* the user is an admin, with status running and port p; with no visible row it
\* fails 404, with a visible row that is not running or has no port it fails 503.
C3_ResolvePort ==
  \A u \in UserIds, i \in AnyInstanceIds :
    LET res == _resolve_port(i, users[u], instances)
        vis == Visible(i, users[u], instances)
    IN  /\ \A p \in Ports :
             (res.ok /\ res.port = p) <=>
               (\E r \in instances :
                  /\ r.id = i /\ (u = "adm" \/ r.user_id = u)
                  /\ r.status = "running" /\ r.port = p)
        /\ res.ok => res.port \in Ports
        /\ vis = {} => res = NotFound
        /\ (vis # {} /\ \E r \in vis : r.status # "running" \/ r.port = None) =>
             res = NotRunning

\* the admin was given the port of I1, which u1 owns
C3_Witness ==
  /\ req.current_user.id = "adm" /\ req.instance_id = "I1" /\ req.port = "7000"
  /\ req.pc = "upstream"

(***************************************************************************)
(* C4                                                                      *)
(***************************************************************************)
\* the first credential source of an HTTP request that matches: the header when
\* it is a bearer header, else the token parameter when it carries a token,
\* else the cookie
FirstMatch(r) ==
  IF StartsWithBearer(r.auth_header) THEN "header"
  ELSE IF r.query_token \notin {None, ""} THEN "query"
  ELSE "cookie"

\* the token that source carries ("" when it carries none)
SourceToken(r, source) ==
  CASE source = "header" -> r.auth_header[2]
    [] source = "query" -> r.query_token
    [] OTHER -> IF CookieFor(r) = None THEN "" ELSE CookieFor(r)

\* C4: the credential of an HTTP request is the token of the first source that
\* matches, and only that token is verified: the request is authenticated only
\* as the user of that token, and when that token names no user the request
\* ends 401 without upstream contact, whatever the lower sources carry.
C4_PriorityChain ==
  Http(req) =>
    LET t == SourceToken(req, FirstMatch(req))
    IN  /\ req.jwt_token = t
        /\ req.token_from_url = (FirstMatch(req) = "query")
        /\ req.current_user # NoUser =>
             (t \in UserTokens /\ req.current_user = users[TokenSub(t)])
        /\ t \notin UserTokens =>
             /\ req.pc \in {"verify", "done"}
             /\ req.current_user = NoUser /\ req.contacts = 0
             /\ req.pc = "done" => (req.status = 401 /\ req.origin = "proxy")

\* a bad bearer token was rejected although the token parameter and the cookie
\* both carried the owner's token
C4_Witness ==
  /\ Http(req) /\ req.pc = "done" /\ req.status = 401
  /\ req.auth_header = <<"Bearer ", "tBad">>
  /\ req.query_token = "tU1" /\ req.instance_id = "I2" /\ CookieFor(req) = "tU2"

(***************************************************************************)
(* C5                                                                      *)
(***************************************************************************)
\* the first non-empty token in the order header, token parameter, cookie
FirstNonEmpty(r) ==
  IF StartsWithBearer(r.auth_header) /\ r.auth_header[2] # "" THEN r.auth_header[2]
  ELSE IF r.query_token \notin {None, ""} THEN r.query_token
  ELSE IF CookieFor(r) # None THEN CookieFor(r)
  ELSE ""

\* C5 as claimed: the credential of an HTTP request is the first non-empty
\* result of the extractors header, token parameter, cookie, so an empty bearer
\* token is passed over.
C5_FirstNonEmptyWins == Http(req) => req.jwt_token = FirstNonEmpty(req)

\* C5 as amended: a bearer Authorization header decides even when its token is
\* empty (the request ends 401, no other source is consulted); without a bearer
\* header the credential is the first non-empty of token parameter and cookie,
\* so an absent or empty token parameter falls through to the cookie.
C5_EmptySkippedAfterHeader ==
  Http(req) =>
    /\ (StartsWithBearer(req.auth_header) /\ req.auth_header[2] = "") =>
         /\ req.jwt_token = "" /\ req.current_user = NoUser
         /\ req.pc = "done" /\ req.status = 401 /\ req.contacts = 0
    /\ ~StartsWithBearer(req.auth_header) => req.jwt_token = FirstNonEmpty(req)

\* an empty bearer token with the owner's token in the URL was answered 401
C5_Witness ==
  /\ Http(req) /\ req.pc = "done" /\ req.status = 401
  /\ req.auth_header = <<"Bearer ", "">> /\ req.query_token = "tU1"
  /\ req.instance_id = "I1"

(***************************************************************************)
(* C6                                                                      *)
(***************************************************************************)
\* C6: a response of proxy_http carries the proxy's Set-Cookie exactly when the
\* request had no bearer header, carried a token in the URL and was answered by
\* the upstream; a response the proxy made itself (401, 404, 503, 502, 504)
\* carries none, nor does an unfinished request or a WebSocket.
C6_SetCookieIffUrlToken ==
  /\ (req.set_cookie # NoSetCookie) <=>
       /\ Http(req) /\ req.pc = "done"
       /\ ~StartsWithBearer(req.auth_header)
       /\ req.query_token \notin {None, ""}
       /\ req.origin = "upstream" /\ req.upstream = "response"
  /\ (req.pc = "done" /\ req.origin = "proxy") => req.set_cookie = NoSetCookie
  /\ req.set_cookie # NoSetCookie => req.set_cookie.key = <<"proxy_token_", req.instance_id>>

\* a request with the token in the URL was answered by the upstream and given
\* the cookie
C6_Witness ==
  /\ Http(req) /\ req.pc = "done" /\ req.status = 200 /\ req.query_token = "tU1"
  /\ req.set_cookie # NoSetCookie

(***************************************************************************)
(* C7                                                                      *)
(***************************************************************************)
\* an HTTP request by which a client returns, to the instance the cookie was
\* issued for, the cookie a ?token= response gave it, and nothing else
IsFollowUp(r) == Http(r) /\ r.followup /\ CookieFor(r) # None

\* what holds of a follow-up request at every moment
C7_State ==
  IsFollowUp(req) =>
    /\ req.jwt_token = CookieFor(req)
    /\ ~req.token_from_url
    /\ req.set_cookie = NoSetCookie
    /\ req.current_user # NoUser => req.current_user = req.first_user
    /\ (req.pc = "done" /\ req.status = 401 /\ req.origin = "proxy") => now > TokenLife
    /\ (req.pc = "done" /\ req.origin = "upstream") =>
         (req.contacts = 1 /\ req.current_user = req.first_user)

\* what every step of a follow-up request does
C7_Step ==
  IsFollowUp(req) =>
    /\ (req.pc = "verify" /\ req'.pc # "verify" /\ now <= TokenLife) =>
         (req'.pc = "resolve" /\ req'.current_user = req.first_user)
    /\ (req.pc = "resolve" /\ req'.pc # "resolve"
          /\ \E r \in Visible(req.instance_id, req.first_user, instances) :
               r.status = "running" /\ r.port # None) =>
         (req'.pc = "upstream" /\ req'.port \in Ports)
    /\ (req.pc = "upstream" /\ req'.pc # "upstream") =>
         (req'.pc = "done" /\ req'.contacts = 1 /\ req'.set_cookie = NoSetCookie)

\* C7: a follow-up request that carries only the cookie issued for its instance
\* uses the cookie's token as its credential, authenticates as the principal of
\* the request that was given the cookie as long as the token has not expired,
\* is relayed as long as the instance is still running, and its response
\* carries no Set-Cookie.
C7_SessionRoundTrip == []C7_State /\ [][C7_Step]_vars

\* the follow-up was relayed for the same principal, without a new cookie
C7_Witness ==
  /\ IsFollowUp(req) /\ req.pc = "done" /\ req.status = 200 /\ req.origin = "upstream"
  /\ req.current_user = req.first_user /\ req.current_user.id = "u1"
  /\ req.set_cookie = NoSetCookie

(***************************************************************************)
(* C8                                                                      *)
(***************************************************************************)
\* C8: every cookie the proxy sets for instance I is named proxy_token_I, holds
\* the token that authenticated the request, has path /api/instances/I/ui,
\* max-age 3600, and is http-only, secure, same-site lax; and a request to J
\* whose only credential material is a cookie of another instance is treated as
\* carrying no credential (401, or close 4001), so that cookie authenticates
\* nothing at J.
C8_CookieScopedToInstance ==
  /\ req.set_cookie # NoSetCookie =>
       /\ req.set_cookie =
            [key |-> <<"proxy_token_", req.instance_id>>, value |-> req.query_token,
             httponly |-> TRUE, secure |-> TRUE, samesite |-> "lax",
             path |-> <<"/api/instances/", req.instance_id, "/ui">>, max_age |-> 3600]
       /\ req.set_cookie.value \in UserTokens
       /\ req.current_user = users[TokenSub(req.set_cookie.value)]
  /\ (Http(req) /\ ~StartsWithBearer(req.auth_header) /\ req.query_token \in {None, ""}
        /\ CookieFor(req) = None) =>
       /\ req.jwt_token = "" /\ req.current_user = NoUser /\ req.contacts = 0
       /\ req.pc = "done" /\ req.status = 401
  /\ (Ws(req) /\ req.query_token \in {None, ""} /\ CookieFor(req) = None) =>
       /\ req.jwt_token = "" /\ req.current_user = NoUser /\ req.contacts = 0
       /\ req.pc = "done" /\ req.close_code = 4001 /\ ~req.accepted

\* the admin's cookie for I1 was sent to I2, where the admin is authorized, and
\* the request was answered 401
C8_Witness ==
  /\ Http(req) /\ req.followup /\ req.instance_id = "I2"
  /\ req.cookies[<<"proxy_token_", "I1">>] = "tAdm"
  /\ req.pc = "done" /\ req.status = 401

(***************************************************************************)
(* C9                                                                      *)
(***************************************************************************)
\* the token is missing, malformed or wrongly signed, expired, without sub, or
\* names an identity that is not in the store
TokenFails(token, t) ==
  \/ token = ""
  \/ token = "tBad"
  \/ t > TokenLife
  \/ token = "tNoSub"
  \/ token = "tGhost"

\* what holds of a finished HTTP request
C9_State ==
  (Http(req) /\ req.pc = "done") =>
    /\ req.jwt_token = "" => (req.status = 401 /\ req.origin = "proxy")
    /\ req.upstream = "ConnectError" => (req.status = 502 /\ req.origin = "proxy")
    /\ req.upstream = "TimeoutException" => (req.status = 504 /\ req.origin = "proxy")
    /\ (req.origin = "proxy" /\ req.status = 401) =>
         (req.current_user = NoUser /\ req.port = None /\ req.upstream = None)
    /\ (req.origin = "proxy" /\ req.status \in {404, 503}) =>
         (req.current_user # NoUser /\ req.port = None /\ req.upstream = None)
    /\ req.upstream # None => (req.current_user # NoUser /\ req.port \in Ports)

\* what the steps of the HTTP handler decide, on the state they read
C9_Step ==
  Http(req) =>
    /\ (req.pc = "verify" /\ req'.pc # "verify") =>
         IF TokenFails(req.jwt_token, now)
           THEN req'.pc = "done" /\ req'.status = 401 /\ req'.origin = "proxy"
           ELSE req'.pc = "resolve"
    /\ (req.pc = "resolve" /\ req'.pc # "resolve") =>
         LET vis == Visible(req.instance_id, req.current_user, instances)
         IN  IF vis = {}
               THEN req'.pc = "done" /\ req'.status = 404 /\ req'.origin = "proxy"
             ELSE IF \E r \in vis : r.status # "running" \/ r.port = None
               THEN req'.pc = "done" /\ req'.status = 503 /\ req'.origin = "proxy"
             ELSE req'.pc = "upstream"

\* C9: proxy_http answers a missing, malformed, expired or unknown-identity
\* credential with 401, an instance that is not found or not owned with 404, an
\* instance that is not running or has no port with 503, an upstream connect
\* failure with 502 and an upstream timeout with 504; the checks run in the
\* order authentication, ownership, running, upstream and the first that fails
\* decides.
C9_FailureMapping == []C9_State /\ [][C9_Step]_vars

\* a bad token for an instance that does not exist: 401, not 404
C9_Witness ==
  /\ Http(req) /\ req.pc = "done" /\ req.status = 401 /\ req.jwt_token = "tBad"
  /\ req.instance_id = "I1" /\ ~(\E r \in instances : r.id = "I1")

(***************************************************************************)
(* C10                                                                     *)
(***************************************************************************)
\* C10: a request contacts the upstream at most once: an HTTP request that has
\* an upstream outcome (answer, connect failure, timeout, other error) has
\* issued exactly one upstream request and is finished, a WebSocket session
\* that has dialled has dialled exactly once, and no request has contacted the
\* upstream more than once.
C10_NoRetry ==
  /\ req.contacts <= 1
  /\ req.upstream # None <=> req.contacts = 1
  /\ (Http(req) /\ req.upstream # None) => req.pc = "done"
  /\ (Ws(req) /\ req.upstream = "refused") => req.pc = "done"

\* a connect failure was answered 502 after one attempt
C10_Witness ==
  /\ Http(req) /\ req.pc = "done" /\ req.upstream = "ConnectError"
  /\ req.status = 502 /\ req.contacts = 1

(***************************************************************************)
(* Pure steps of the relay.  Each is applied once to an input drawn from a  *)
(* bounded set; call holds the input and the result.                       *)
(***************************************************************************)
\* the request side at rest
GateAtRest ==
  /\ instances = {RowI2}
  /\ now = 1
  /\ req = Idle

\* the elements of a finite set of numbers in increasing order
Ordered(S) ==
  CHOOSE f \in [1..Cardinality(S) -> S] :
    \A i, j \in 1..Cardinality(S) : i < j => f[i] < f[j]

(***************************************************************************)
(* The upstream query string                                               *)
(***************************************************************************)
ParamNames == {"token", "a", "b"}

\* decoded parameter values; the last one holds the characters & and =
ParamValues == {"1", "2", "1&token=x"}

ParamPairs == [k : ParamNames, v : ParamValues]

\* request.query_params as parsed from the URL: every pair, in order
ParamLists == UNION {[1..n -> ParamPairs] : n \in 0..MaxParams}

\* dict(l).items() for a list l of pairs: one pair for each key, in the order
\* of the keys' first occurrences, with the value of the key's last occurrence
DictItems(l) ==
  LET firsts == {i \in 1..Len(l) : \A j \in 1..(i - 1) : l[j].k # l[i].k}
      last(i) == CHOOSE j \in 1..Len(l) :
                   /\ l[j].k = l[i].k
                   /\ \A m \in (j + 1)..Len(l) : l[m].k # l[i].k
      ord == Ordered(firsts)
  IN  [n \in 1..Cardinality(firsts) |-> [k |-> l[ord[n]].k, v |-> l[last(ord[n])].v]]

\* ImmutableMultiDict.items(): the items of the dict built from the pair list
MultiDictItems(l) == DictItems(l)

\* "&".join(f"{k}={v}" ...) as the upstream parses it: k and v are written as
\* they are, so a value that holds & and = is read as further parameters
RECURSIVE JoinAndParse(_)
JoinAndParse(items) ==
  IF items = <<>> THEN <<>>
  ELSE LET p == Head(items)
           parsed == IF p.v = "1&token=x"
                       THEN <<[k |-> p.k, v |-> "1"], [k |-> "token", v |-> "x"]>>
                       ELSE <<p>>
       IN  parsed \o JoinAndParse(Tail(items))

NotToken(p) == p.k # "token"

\* lines 127-132: qs_params = {k: v for k, v in request.query_params.items()
\* if k != "token"}, joined; the result is the parameter list the upstream reads
http_upstream_query(params) ==
  JoinAndParse(MultiDictItems(SelectSeq(MultiDictItems(params), NotToken)))

\* lines 293-301: the same join over websocket.query_params.items()
ws_upstream_query(params) ==
  JoinAndParse(SelectSeq(MultiDictItems(params), NotToken))

InitQuery == GateAtRest /\ call = NoCall /\ relay = NoRelay /\ ServicesAtRest

HttpBuildQuery ==
  /\ call = NoCall
  /\ \E params \in ParamLists :
       call' = [op |-> "http_query", in |-> params, out |-> http_upstream_query(params)]
  /\ UNCHANGED <<gate, relay, services>>

WsBuildQuery ==
  /\ call = NoCall
  /\ \E params \in ParamLists :
       call' = [op |-> "ws_query", in |-> params, out |-> ws_upstream_query(params)]
  /\ UNCHANGED <<gate, relay, services>>

NextQuery ==
  \/ HttpBuildQuery
  \/ WsBuildQuery

SpecQuery == InitQuery /\ [][NextQuery]_vars

(***************************************************************************)
(* C11                                                                     *)
(***************************************************************************)
\* C11: the parameters the upstream reads from the query string are the
\* client's parameters that are not named token: every such pair, each
\* occurrence of a repeated name included, in the original order, and no pair
\* named token.
C11_QueryForwarded ==
  call.op \in {"http_query", "ws_query"} =>
    /\ call.out = SelectSeq(call.in, NotToken)
    /\ \A i \in 1..Len(call.out) : call.out[i].k # "token"

(***************************************************************************)
(* Request and response headers                                            *)
(***************************************************************************)
HOP_BY_HOP ==
  {"connection", "keep-alive", "proxy-authenticate", "proxy-authorization",
   "te", "trailers", "transfer-encoding", "upgrade", "host"}

\* header names as a caller may spell them
RequestHeaderNames == {"cookie", "x-a", "Connection", "Host", "te"}

\* str.lower() on the names in use
Lower(name) ==
  CASE name = "Connection" -> "connection"
    [] name = "Host" -> "host"
    [] OTHER -> name

\* a header value is a sequence of text parts
HeaderValues == {<<"1">>, <<"2">>}

RequestHeaderLists ==
  UNION {[1..n -> [k : RequestHeaderNames, v : HeaderValues]] : n \in 0..MaxHeaders}

NotHopByHop(h) == Lower(h.k) \notin HOP_BY_HOP

\* lines 134-138: a dict comprehension over request.headers.items() (every
\* header line of the request), then the host entry; httpx sends one header
\* line for each entry of the dict
forward_headers(headers, port) ==
  DictItems(SelectSeq(headers, NotHopByHop) \o <<[k |-> "host", v |-> <<"127.0.0.1:", port>>]>>)

\* the response header names the upstream sends, as httpx reports them
ResponseHeaderNames == {"set-cookie", "x-a", "content-length", "connection"}

ResponseHeaderLists ==
  UNION {[1..n -> [k : ResponseHeaderNames, v : HeaderValues]] : n \in 0..MaxHeaders}

\* httpx Headers.items(): one pair for each name, in the order of the names'
\* first occurrences, the values of a repeated name joined with ", "
RECURSIVE JoinValues(_, _)
JoinValues(l, name) ==
  IF l = <<>> THEN <<>>
  ELSE LET rest == JoinValues(Tail(l), name)
       IN  IF Head(l).k # name THEN rest
           ELSE IF rest = <<>> THEN Head(l).v
           ELSE Head(l).v \o <<", ">> \o rest

HttpxHeadersItems(l) ==
  LET d == DictItems(l)
  IN  [n \in 1..Len(d) |-> [k |-> d[n].k, v |-> JoinValues(l, d[n].k)]]

Copied(h) == Lower(h.k) \notin HOP_BY_HOP /\ Lower(h.k) # "content-length"

\* lines 153-156 and 213-218: a dict comprehension over upstream.headers.items(),
\* returned as the headers of the Response
response_headers(headers) ==
  DictItems(SelectSeq(HttpxHeadersItems(headers), Copied))

\* the number of times each element occurs in a sequence
BagOf(l) ==
  [x \in {l[i] : i \in 1..Len(l)} |-> Cardinality({i \in 1..Len(l) : l[i] = x})]

InitHeaders == GateAtRest /\ call = NoCall /\ relay = NoRelay /\ ServicesAtRest

ForwardRequestHeaders ==
  /\ call = NoCall
  /\ \E headers \in RequestHeaderLists, port \in Ports :
       call' = [op |-> "forward_headers", in |-> headers, port |-> port,
                out |-> forward_headers(headers, port)]
  /\ UNCHANGED <<gate, relay, services>>

CopyResponseHeaders ==
  /\ call = NoCall
  /\ \E headers \in ResponseHeaderLists :
       call' = [op |-> "response_headers", in |-> headers,
                out |-> response_headers(headers)]
  /\ UNCHANGED <<gate, relay, services>>

NextHeaders ==
  \/ ForwardRequestHeaders
  \/ CopyResponseHeaders

SpecHeaders == InitHeaders /\ [][NextHeaders]_vars

(***************************************************************************)
(* C12                                                                     *)
(***************************************************************************)
\* C12: the header lines sent upstream are exactly the client's header lines
\* whose lower-cased name is not hop-by-hop, plus exactly one Host line with
\* the value 127.0.0.1:<port>; no hop-by-hop line and no client Host value
\* reaches the upstream.
C12_RequestHeaders ==
  call.op = "forward_headers" =>
    LET host == [k |-> "host", v |-> <<"127.0.0.1:", call.port>>]
    IN  BagOf(call.out) = BagOf(SelectSeq(call.in, NotHopByHop) \o <<host>>)

(***************************************************************************)
(* C13                                                                     *)
(***************************************************************************)
\* C13: the response's header lines are the upstream's header lines except
\* the hop-by-hop ones and Content-Length: every other line is copied, each of
\* several lines with one name included, and Content-Length never is.
C13_ResponseHeaders ==
  call.op = "response_headers" =>
    BagOf(call.out) = BagOf(SelectSeq(call.in, Copied))

(***************************************************************************)
(* The HTML rewrite.  A document is a sequence of lexemes; every "/" of    *)
(* the text is a lexeme of its own, "x" stands for text without any        *)
(* character the patterns look at, SCRIPT for a script element of the page *)
(* and SHIM for the injected script element.                               *)
(***************************************************************************)
DoubleQuoted == {"href=\"", "src=\"", "action=\""}

SingleQuoted == {"href='", "src='", "action='"}

CssUrl == {"url("}

SHIM == "SHIM"

Lexemes ==
  DoubleQuoted \cup SingleQuoted \cup CssUrl
    \cup {"/", "data-", "<head", "er", ">", "<HEAD", "SCRIPT", "x"}

Documents == UNION {[1..n -> Lexemes] : n \in 0..MaxDoc}

\* ui_base = f"/api/instances/{instance_id}/ui", lexeme by lexeme
UiBaseText(instance_id) == <<"/", "api", "/", "instances", "/", instance_id, "/", "ui">>

\* re.sub(r'<opener>/', rf'<opener>{ui_base}/', html): left to right, without
\* overlap, the replacement text is not searched again
RECURSIVE Sub(_, _, _)
Sub(openers, base, html) ==
  IF Len(html) < 2 THEN html
  ELSE IF html[1] \in openers /\ html[2] = "/"
    THEN <<html[1]>> \o base \o <<"/">> \o Sub(openers, base, SubSeq(html, 3, Len(html)))
  ELSE <<html[1]>> \o Sub(openers, base, Tail(html))

\* lines 165-167: the three substitutions, in this order
rewrite_links(html, base) ==
  Sub(CssUrl, base, Sub(SingleQuoted, base, Sub(DoubleQuoted, base, html)))

\* an injection that leaves a document holding the shim alone
InjectShimOnce(html) ==
  LET opens == {i \in 1..Len(html) :
                  html[i] = "<head" /\ \E j \in (i + 1)..Len(html) : html[j] = ">"}
  IN  IF \E i \in 1..Len(html) : html[i] = SHIM THEN html
      ELSE IF opens # {}
        THEN LET i == CHOOSE m \in opens : \A n \in opens : m <= n
                 j == CHOOSE m \in (i + 1)..Len(html) :
                        html[m] = ">" /\ \A n \in (i + 1)..(m - 1) : html[n] # ">"
             IN  SubSeq(html, 1, j) \o <<SHIM>> \o SubSeq(html, j + 1, Len(html))
      ELSE IF \A i \in 1..Len(html) : html[i] # "<head" THEN <<SHIM>> \o html
      ELSE html

\* lines 207-209: re.sub(r'<head([^>]*)>', m.group(0) + shim, html, count=1),
\* then the shim in front when '<head' is not in html
InjectShim(html) ==
  LET opens == {i \in 1..Len(html) :
                  html[i] = "<head" /\ \E j \in (i + 1)..Len(html) : html[j] = ">"}
  IN  IF opens # {}
        THEN LET i == CHOOSE m \in opens : \A n \in opens : m <= n
                 j == CHOOSE m \in (i + 1)..Len(html) :
                        html[m] = ">" /\ \A n \in (i + 1)..(m - 1) : html[n] # ">"
             IN  SubSeq(html, 1, j) \o <<SHIM>> \o SubSeq(html, j + 1, Len(html))
      ELSE IF \A i \in 1..Len(html) : html[i] # "<head" THEN <<SHIM>> \o html
      ELSE html

\* lines 162-211: the body of the HTML branch
rewrite_html(html, instance_id) == InjectShim(rewrite_links(html, UiBaseText(instance_id)))

InitHtml == GateAtRest /\ call = NoCall /\ relay = NoRelay /\ ServicesAtRest

\* one HTML response goes through the rewrite
RewriteHtml ==
  /\ call = NoCall
  /\ \E html \in Documents, instance_id \in InstanceIds :
       call' = [op |-> "rewrite", in |-> html, instance_id |-> instance_id,
                links |-> rewrite_links(html, UiBaseText(instance_id)),
                first |-> rewrite_html(html, instance_id),
                out |-> rewrite_html(html, instance_id)]
  /\ UNCHANGED <<gate, relay, services>>

\* the rewritten document goes through the rewrite a second time
RewriteAgain ==
  /\ call.op = "rewrite"
  /\ call' = [call EXCEPT !.op = "rewrite_again",
                          !.out = rewrite_html(call.first, call.instance_id)]
  /\ UNCHANGED <<gate, relay, services>>

NextHtml ==
  \/ RewriteHtml
  \/ RewriteAgain

SpecHtml == InitHtml /\ [][NextHtml]_vars

\* the number of occurrences of a lexeme in a document
Count(lexeme, html) == Cardinality({i \in 1..Len(html) : html[i] = lexeme})

\* the document without its occurrences of a lexeme
Without(lexeme, html) ==
  LET keep(l) == l # lexeme
  IN  SelectSeq(html, keep)

\* the rewrite the claims describe: the prefix goes in front of the value of an
\* href, src or action attribute, or of a CSS url(, that starts with a single "/"
RECURSIVE PrefixRootAbsolute(_, _, _)
PrefixRootAbsolute(before, base, html) ==
  IF html = <<>> THEN <<>>
  ELSE IF /\ Len(html) >= 2
          /\ html[1] \in DoubleQuoted \cup SingleQuoted \cup CssUrl
          /\ before # "data-"
          /\ html[2] = "/"
          /\ (Len(html) >= 3 => html[3] # "/")
    THEN <<html[1]>> \o base \o <<"/">> \o PrefixRootAbsolute("/", base, SubSeq(html, 3, Len(html)))
  ELSE <<html[1]>> \o PrefixRootAbsolute(html[1], base, Tail(html))

(***************************************************************************)
(* C14                                                                     *)
(***************************************************************************)
\* C14: the rewrite prefixes with /api/instances/I/ui exactly the
\* root-absolute references (href, src, action values and CSS url( that start
\* with a single "/"); protocol-relative and other references and all other
\* text stay as they are.
C14_ExactlyRootAbsolute ==
  call.op = "rewrite" =>
    call.links = PrefixRootAbsolute("", UiBaseText(call.instance_id), call.in)

(***************************************************************************)
(* C15                                                                     *)
(***************************************************************************)
\* C15 as claimed: the rewrite of a rewritten document is that document.
C15_Idempotent ==
  call.op = "rewrite_again" => call.out = call.first

\* C15: the rewrite is not idempotent.  A second pass injects a second shim
\* whenever the first pass injected one and prefixes again every reference
\* the first pass prefixed; it returns its input only for a document that
\* the first pass left as it was.
C15_SecondPassDoubles ==
  call.op = "rewrite_again" =>
    /\ Count(SHIM, call.first) \in {0, 1}
    /\ Count(SHIM, call.out) = 2 * Count(SHIM, call.first)
    /\ Count("api", call.out) = 2 * Count("api", call.first)
    /\ (call.out = call.first <=> call.first = call.in)

C15_Witness ==
  /\ call.op = "rewrite_again"
  /\ Count(SHIM, call.out) = 2
  /\ Count("api", call.first) = 1
  /\ Count("api", call.out) = 2

(***************************************************************************)
(* C16                                                                     *)
(***************************************************************************)
\* C16: the shim is injected exactly once: right after the opening <head>
\* tag when the document has one, at the very start when it has none
\* (<header> and <HEAD> are not <head>), and before every script of the page.
C16_ShimPlacement ==
  call.op = "rewrite" =>
    LET html == call.links
        out == call.first
        at == CHOOSE i \in 1..Len(out) : out[i] = SHIM
        heads == {i \in 1..Len(html) : html[i] = "<head"}
        tags == {i \in heads : i < Len(html) /\ html[i + 1] = ">"}
        other == {i \in heads : i < Len(html) => html[i + 1] # "er"}
    IN  /\ Count(SHIM, out) = 1
        /\ Without(SHIM, out) = html
        /\ \A i \in 1..Len(out) : out[i] = "SCRIPT" => at < i
        /\ other = {} => at = 1
        /\ (tags # {} /\ \A i \in heads : \E j \in tags : j <= i) =>
             \E j \in tags : (\A i \in tags : j <= i) /\ at = j + 2

(***************************************************************************)
(* One exchange with the upstream: what proxy_http sends and what it       *)
(* returns.                                                                *)
(***************************************************************************)
Methods == {"GET", "POST"}

\* the path after /ui/ as the client wrote it in the request line
RawPaths == {"a", "a%20b", "a%3Fb"}

\* percent-decoding of the request path, which the {path:path} parameter holds
Unquote(raw) ==
  CASE raw = "a%20b" -> "a b"
    [] raw = "a%3Fb" -> "a?b"
    [] OTHER -> raw

\* the path of the request line that httpx writes for f"http://127.0.0.1:{port}/{path}":
\* the text up to the first "?", with a blank quoted
TargetPath(path) ==
  CASE path = "a b" -> "a%20b"
    [] path = "a?b" -> "a"
    [] OTHER -> path

RequestBodies == {"", "payload"}

StatusCodes == {200, 404, 500}

\* content-type of the upstream response; None when it sends none
ContentTypes == {"text/html; charset=utf-8", "application/json", None}

\* content-encoding of the upstream response; None when it sends none
ContentEncodings == {None, "gzip"}

\* decoded payloads of the upstream body
Payloads == {<<>>, <<"href=\"", "/", "x">>}

\* the bytes of a body: a payload under a content coding
UpstreamResponses ==
  [status_code : StatusCodes, content_type : ContentTypes,
   content : [coding : ContentEncodings, data : Payloads]]

\* upstream.aread(): the body with its content coding taken off
aread(resp) == [coding |-> None, data |-> resp.content.data]

\* "text/html" in upstream.headers.get("content-type", "")
IsTextHtml(content_type) == content_type = "text/html; charset=utf-8"

\* lines 140-152: the request handed to client.stream
proxy_http_request(method, path, body) ==
  [method |-> method, path |-> TargetPath(path), content |-> body]

\* lines 157-218: the Response built from the upstream's
proxy_http_response(resp, instance_id) ==
  LET content == aread(resp)
  IN  [status_code |-> resp.status_code,
       content |-> IF IsTextHtml(resp.content_type)
                     THEN [content EXCEPT !.data = rewrite_html(content.data, instance_id)]
                     ELSE content]

InitExchange == GateAtRest /\ call = NoCall /\ relay = NoRelay /\ ServicesAtRest

Exchange ==
  /\ call = NoCall
  /\ \E method \in Methods, raw \in RawPaths, body \in RequestBodies,
        resp \in UpstreamResponses, instance_id \in InstanceIds :
       call' = [op |-> "exchange", method |-> method, raw_path |-> raw, body |-> body,
                instance_id |-> instance_id, upstream |-> resp,
                sent |-> proxy_http_request(method, Unquote(raw), body),
                out |-> proxy_http_response(resp, instance_id)]
  /\ UNCHANGED <<gate, relay, services>>

NextExchange == Exchange

SpecExchange == InitExchange /\ [][NextExchange]_vars

(***************************************************************************)
(* C17                                                                     *)
(***************************************************************************)
\* C17: the body of a response that is not HTML is returned byte for byte;
\* the status code returned is the upstream's; the method, path and body sent
\* upstream are the client's.
C17_Frame ==
  call.op = "exchange" =>
    /\ ~IsTextHtml(call.upstream.content_type) => call.out.content = call.upstream.content
    /\ call.out.status_code = call.upstream.status_code
    /\ call.sent.method = call.method
    /\ call.sent.path = call.raw_path
    /\ call.sent.content = call.body

(***************************************************************************)
(* C18                                                                     *)
(***************************************************************************)
\* the credential of a WebSocket connect: the token parameter, else the cookie
WsToken(r) == IF r.query_token \notin {None, ""} THEN r.query_token ELSE CookieFor(r)

RejectionCodes == {4001, 4003, 4004}

\* what holds of a WebSocket session
C18_State ==
  Ws(req) =>
    /\ (WsToken(req) \in {None, ""}) <=> (req.close_code = 4001)
    /\ WsToken(req) \notin {None, ""} => req.jwt_token = WsToken(req)
    /\ req.close_code \in RejectionCodes => (req.pc = "done" /\ ~req.accepted /\ req.contacts = 0)
    /\ (req.pc = "done" /\ ~req.accepted) => req.close_code \in RejectionCodes
    /\ req.close_code = 4001 => req.jwt_token = ""
    /\ req.close_code = 4003 => (req.jwt_token # "" /\ req.current_user = NoUser)
    /\ req.close_code = 4004 =>
         /\ req.current_user # NoUser /\ req.port = None
         /\ req.reason \in {NotFound.detail, NotRunning.detail}
    /\ req.accepted => req.close_code \in {0, 1000}

\* what the steps of the WebSocket handler decide, on the state they read
C18_Step ==
  Ws(req) =>
    /\ (req.pc = "verify" /\ req'.pc # "verify") =>
         IF TokenFails(req.jwt_token, now)
           THEN req'.pc = "done" /\ req'.close_code = 4003 /\ ~req'.accepted
           ELSE req'.pc = "resolve"
    /\ (req.pc = "resolve" /\ req'.pc # "resolve") =>
         LET vis == Visible(req.instance_id, req.current_user, instances)
         IN  IF vis = {}
               THEN /\ req'.pc = "done" /\ req'.close_code = 4004 /\ ~req'.accepted
                    /\ req'.reason = NotFound.detail
             ELSE IF \E r \in vis : r.status # "running" \/ r.port = None
               THEN /\ req'.pc = "done" /\ req'.close_code = 4004 /\ ~req'.accepted
                    /\ req'.reason = NotRunning.detail
             ELSE req'.pc = "accept"

\* C18: proxy_websocket takes its credential from the token parameter, else
\* from the cookie proxy_token_<id>, and refuses without accepting: 4001 with
\* no credential, 4003 when verify_token fails, 4004 with the failure detail as
\* reason when the instance is not found, not owned or not running; the three
\* codes tell the three causes apart and none is 1000.
C18_CloseCodes == []C18_State /\ [][C18_Step]_vars

\* a valid token for an instance that is not running: refused with 4004
C18_Witness ==
  /\ Ws(req) /\ req.pc = "done" /\ ~req.accepted
  /\ req.close_code = 4004 /\ req.reason = "Instance is not running"
  /\ req.jwt_token = "tU1" /\ req.instance_id = "I1"

(***************************************************************************)
(* C19                                                                     *)
(***************************************************************************)
\* the state of a WebSocket session; CONNECTING, the test for a credential,
\* is over when the handler reaches its first await
WsState(r) ==
  CASE r.pc = "verify" -> "AUTHENTICATING"
    [] r.pc \in {"resolve", "accept"} -> "AUTHORIZING"
    [] r.pc = "dial" -> "ACCEPTED"
    [] r.pc = "relay" -> "RELAYING"
    [] r.pc = "done" /\ r.accepted -> "CLOSED"
    [] r.pc = "done" /\ ~r.accepted -> "REJECTED"
    [] OTHER -> "CONNECTING"

WsStateOrder ==
  {<<"AUTHENTICATING", "AUTHORIZING">>, <<"AUTHENTICATING", "REJECTED">>,
   <<"AUTHORIZING", "AUTHORIZING">>, <<"AUTHORIZING", "REJECTED">>,
   <<"AUTHORIZING", "ACCEPTED">>, <<"ACCEPTED", "RELAYING">>,
   <<"ACCEPTED", "CLOSED">>, <<"RELAYING", "CLOSED">>}

C19_State ==
  Ws(req) =>
    /\ WsState(req) # "CONNECTING"
    /\ req.accepted <=> WsState(req) \in {"ACCEPTED", "RELAYING", "CLOSED"}
    /\ req.accepted =>
         /\ req.jwt_token \in UserTokens
         /\ req.current_user = users[TokenSub(req.jwt_token)]
         /\ req.port \in Ports
         /\ req.close_code \notin RejectionCodes
    /\ WsState(req) = "REJECTED" => req.contacts = 0

C19_Step ==
  /\ (~Ws(req) /\ Ws(req')) => WsState(req') \in {"AUTHENTICATING", "REJECTED"}
  /\ (Ws(req) /\ req' # req) =>
       IF WsState(req) \in {"CLOSED", "REJECTED"}
         THEN req' = Idle
         ELSE /\ Ws(req')
              /\ req'.instance_id = req.instance_id
              /\ <<WsState(req), WsState(req')>> \in WsStateOrder
              /\ (WsState(req) = "AUTHORIZING" /\ WsState(req') = "AUTHORIZING") =>
                   (req.pc = "resolve" /\ req'.pc = "accept")

\* C19: a WebSocket session moves through CONNECTING, AUTHENTICATING,
\* AUTHORIZING, ACCEPTED, RELAYING, CLOSED in this order; the socket is accepted
\* only after credential, authentication and authorization have passed;
\* REJECTED is entered only before ACCEPTED; an accepted session is never closed
\* with a rejection code; CLOSED and REJECTED are final and no state is revisited.
C19_StateOrder == []C19_State /\ [][C19_Step]_vars

\* a session that was accepted, relayed and closed
C19_Witness ==
  /\ Ws(req) /\ WsState(req) = "CLOSED"
  /\ req.upstream = "connected" /\ req.close_code = 1000 /\ req.contacts = 1

(***************************************************************************)
(* The WebSocket relay of one accepted session with a connected upstream:  *)
(* the tasks forward_to_upstream and forward_to_client, each either        *)
(* waiting for a frame (recv), holding one it has not passed on yet (send),*)
(* ended (done) or cancelled.                                              *)
(***************************************************************************)
FrameTypes == {"text", "binary"}

\* payloads; the empty one is a frame like any other
FrameData == {"", "a"}

Frames == [type : FrameTypes, data : FrameData]

\* an optional value: <<>> for None, <<v>> for v
Absent == <<>>

\* websocket.receive() for a frame of the client: the ASGI message
receive(frame) ==
  [type |-> "websocket.receive",
   bytes |-> IF frame.type = "binary" THEN <<frame.data>> ELSE Absent,
   text |-> IF frame.type = "text" THEN <<frame.data>> ELSE Absent]

NoMessage == [type |-> "none", bytes |-> Absent, text |-> Absent]

\* the next item of "async for message in upstream_ws": bytes for a binary
\* frame, str for a text frame
recv(frame) ==
  [py |-> IF frame.type = "binary" THEN "bytes" ELSE "str", val |-> frame.data]

NoValue == [py |-> "none", val |-> ""]

\* upstream_ws.send(value): a binary frame for bytes, a text frame for str
send(value) ==
  [type |-> IF value.py = "bytes" THEN "binary" ELSE "text", data |-> value.val]

\* a relay that tests the payload for truth instead of for None
forward_to_upstream_truthy(msg) ==
  IF msg.bytes # Absent /\ msg.bytes[1] # ""
    THEN <<send([py |-> "bytes", val |-> msg.bytes[1]])>>
  ELSE IF msg.text # Absent /\ msg.text[1] # ""
    THEN <<send([py |-> "str", val |-> msg.text[1]])>>
  ELSE <<>>

\* lines 321-324: the frames forward_to_upstream sends for one message
forward_to_upstream(msg) ==
  IF msg.bytes # Absent
    THEN <<send([py |-> "bytes", val |-> msg.bytes[1]])>>
  ELSE IF msg.text # Absent
    THEN <<send([py |-> "str", val |-> msg.text[1]])>>
  ELSE <<>>

\* a relay that passes every frame of the upstream on twice
forward_to_client_twice(message) ==
  IF message.py = "bytes"
    THEN <<[type |-> "binary", data |-> message.val], [type |-> "binary", data |-> message.val]>>
    ELSE <<[type |-> "text", data |-> message.val], [type |-> "text", data |-> message.val]>>

\* lines 333-336: the frames forward_to_client sends for one message:
\* send_bytes for bytes, send_text for anything else
forward_to_client(message) ==
  IF message.py = "bytes"
    THEN <<[type |-> "binary", data |-> message.val]>>
    ELSE <<[type |-> "text", data |-> message.val]>>

\* lines 341-347: both tasks created, nothing relayed yet.  errors holds the
\* places that have raised an exception, logged those that logger.warning
\* has reported
NewRelay ==
  [pc |-> "relaying",
   up |-> "recv", msg |-> NoMessage,
   down |-> "recv", message |-> NoValue,
   client_sent |-> <<>>, upstream_got |-> <<>>,
   upstream_sent |-> <<>>, client_got |-> <<>>,
   upstream_open |-> TRUE, closes |-> 0, close_raised |-> FALSE,
   errors |-> {}, logged |-> {}, propagated |-> FALSE]

\* lines 308-312 and 355-356: websockets.connect raises; the tasks are never
\* created, the exception is logged
DialFailed ==
  [NewRelay EXCEPT !.pc = "closing", !.up = "unborn", !.down = "unborn",
                   !.upstream_open = FALSE, !.errors = {"dial"}, !.logged = {"dial"}]

Running(task) == task \in {"recv", "send", "cancelling"}

\* the first task has ended and the handler goes on without the other one
cancel_pending_no_await(r) ==
  [r EXCEPT !.pc = "teardown"]

\* a handler that does not cancel the task that is still pending
cancel_pending_forgets(r) ==
  [r EXCEPT !.pc = "awaiting"]

\* lines 348-350: task.cancel() for the tasks that asyncio.wait left pending;
\* the handler then awaits them
cancel_pending(r) ==
  [r EXCEPT !.pc = "awaiting",
            !.up = IF @ \in {"recv", "send"} THEN "cancelling" ELSE @,
            !.down = IF @ \in {"recv", "send"} THEN "cancelling" ELSE @]

\* a handler that closes the client socket in the except clause and again in
\* the finally clause
close_client_twice(r, outcome) ==
  [r EXCEPT !.pc = "closed", !.closes = @ + 2, !.close_raised = (outcome = "raised")]

\* lines 357-361: finally: await websocket.close(); except Exception: pass
close_client(r, outcome) ==
  [r EXCEPT !.pc = "closed", !.closes = @ + 1, !.close_raised = (outcome = "raised")]

InitRelay == GateAtRest /\ call = NoCall /\ relay = NoRelay /\ ServicesAtRest

\* websockets.connect succeeds and both tasks are created
StartRelay ==
  /\ relay = NoRelay
  /\ relay' = NewRelay
  /\ UNCHANGED <<gate, call, services>>

\* websockets.connect raises
DialFails ==
  /\ relay = NoRelay
  /\ relay' = DialFailed
  /\ UNCHANGED <<gate, call, services>>

\* msg = await websocket.receive(): a frame of the client
ClientFrame ==
  /\ relay.pc = "relaying" /\ relay.up = "recv"
  /\ Len(relay.client_sent) < MaxFrames
  /\ \E frame \in Frames :
       relay' = [relay EXCEPT !.up = "send", !.msg = receive(frame),
                              !.client_sent = Append(@, frame)]
  /\ UNCHANGED <<gate, call, services>>

\* websocket.receive() gives websocket.disconnect (break) or raises (except
\* ...: pass): the task ends
ClientDisconnect ==
  /\ relay.pc = "relaying" /\ relay.up = "recv"
  /\ \E outcome \in {"disconnect", "raised"} :
       relay' = [relay EXCEPT !.up = "done",
                              !.errors = IF outcome = "raised" THEN @ \cup {"up"} ELSE @]
  /\ UNCHANGED <<gate, call, services>>

\* await upstream_ws.send(...): the frame is sent, or send raises and the
\* task ends
UpstreamSend ==
  /\ relay.pc = "relaying" /\ relay.up = "send"
  /\ \E outcome \in {"sent", "raised"} :
       relay' = IF outcome = "sent"
                  THEN [relay EXCEPT !.up = "recv", !.msg = NoMessage,
                                     !.upstream_got = @ \o forward_to_upstream(relay.msg)]
                  ELSE [relay EXCEPT !.up = "done", !.msg = NoMessage,
                                     !.errors = @ \cup {"up"}]
  /\ UNCHANGED <<gate, call, services>>

\* async for message in upstream_ws: a frame of the upstream
UpstreamFrame ==
  /\ relay.pc = "relaying" /\ relay.down = "recv"
  /\ Len(relay.upstream_sent) < MaxFrames
  /\ \E frame \in Frames :
       relay' = [relay EXCEPT !.down = "send", !.message = recv(frame),
                              !.upstream_sent = Append(@, frame)]
  /\ UNCHANGED <<gate, call, services>>

\* the upstream closes (the iteration ends) or fails (the iteration raises,
\* except Exception: pass): the task ends
UpstreamEnd ==
  /\ relay.pc = "relaying" /\ relay.down = "recv"
  /\ \E outcome \in {"closed", "raised"} :
       relay' = [relay EXCEPT !.down = "done",
                              !.errors = IF outcome = "raised" THEN @ \cup {"down"} ELSE @]
  /\ UNCHANGED <<gate, call, services>>

\* await websocket.send_bytes / send_text: the frame is sent, or the call
\* raises and the task ends
ClientSend ==
  /\ relay.pc = "relaying" /\ relay.down = "send"
  /\ \E outcome \in {"sent", "raised"} :
       relay' = IF outcome = "sent"
                  THEN [relay EXCEPT !.down = "recv", !.message = NoValue,
                                     !.client_got = @ \o forward_to_client(relay.message)]
                  ELSE [relay EXCEPT !.down = "done", !.message = NoValue,
                                     !.errors = @ \cup {"down"}]
  /\ UNCHANGED <<gate, call, services>>

\* lines 341-350: asyncio.wait returns when a task has ended; the pending
\* ones are cancelled
CancelPending ==
  /\ relay.pc = "relaying"
  /\ relay.up = "done" \/ relay.down = "done"
  /\ relay' = cancel_pending(relay)
  /\ UNCHANGED <<gate, call, services>>

\* CancelledError is raised at the await of a cancelled task (it is not an
\* Exception, so the task's except clauses let it through): the task ends
\* and the frame it held is dropped
TaskCancelled ==
  /\ relay.pc = "awaiting"
  /\ \/ /\ relay.up = "cancelling"
        /\ relay' = [relay EXCEPT !.up = "cancelled", !.msg = NoMessage]
     \/ /\ relay.down = "cancelling"
        /\ relay' = [relay EXCEPT !.down = "cancelled", !.message = NoValue]
  /\ UNCHANGED <<gate, call, services>>

\* lines 350-353: await task returns for every cancelled task
Awaited ==
  /\ relay.pc = "awaiting"
  /\ relay.up # "cancelling" /\ relay.down # "cancelling"
  /\ relay' = [relay EXCEPT !.pc = "teardown"]
  /\ UNCHANGED <<gate, call, services>>

\* line 312: the end of "async with websockets.connect(...)"
ReleaseUpstream ==
  /\ relay.pc = "teardown"
  /\ relay' = [relay EXCEPT !.pc = "closing", !.upstream_open = FALSE]
  /\ UNCHANGED <<gate, call, services>>

\* lines 357-361: finally: await websocket.close(), which raises when the
\* socket is closed already
CloseClient ==
  /\ relay.pc = "closing"
  /\ \E outcome \in {"closed", "raised"} :
       relay' = close_client(relay, outcome)
  /\ UNCHANGED <<gate, call, services>>

NextRelay ==
  \/ StartRelay
  \/ DialFails
  \/ ClientFrame
  \/ ClientDisconnect
  \/ UpstreamSend
  \/ UpstreamFrame
  \/ UpstreamEnd
  \/ ClientSend
  \/ CancelPending
  \/ TaskCancelled
  \/ Awaited
  \/ ReleaseUpstream
  \/ CloseClient

SpecRelay == InitRelay /\ [][NextRelay]_vars

(***************************************************************************)
(* C20                                                                     *)
(***************************************************************************)
\* every frame passed on so far is the frame that came in, with its type
\* and payload, and a task that waits for the next frame has passed on every
\* frame it took
Verbatim(task, taken, passed) ==
  /\ Len(passed) <= Len(taken)
  /\ \A i \in 1..Len(passed) :
       passed[i].type = taken[i].type /\ passed[i].data = taken[i].data
  /\ task = "recv" => Len(passed) = Len(taken)
  /\ task = "send" => Len(passed) = Len(taken) - 1

\* C20: while a session relays, every frame is forwarded verbatim with its
\* type, in both directions: a text frame as a text frame with the same
\* payload, a binary frame as a binary frame; no frame is altered, split,
\* merged or re-typed.
C20_FramesVerbatim ==
  relay.pc = "relaying" =>
    /\ Verbatim(relay.up, relay.client_sent, relay.upstream_got)
    /\ Verbatim(relay.down, relay.upstream_sent, relay.client_got)

\* an empty text frame and a binary frame went up, a binary frame came down
C20_Witness ==
  /\ relay.pc = "relaying" /\ relay.up = "recv" /\ relay.down = "recv"
  /\ relay.upstream_got = <<[type |-> "text", data |-> ""], [type |-> "binary", data |-> "a"]>>
  /\ relay.client_got = <<[type |-> "binary", data |-> ""]>>

(***************************************************************************)
(* C21                                                                     *)
(***************************************************************************)
IsPrefix(p, t) ==
  /\ Len(p) <= Len(t)
  /\ \A i \in 1..Len(p) : p[i] = t[i]

C21_State ==
  relay.pc # "none" =>
    /\ IsPrefix(relay.upstream_got, relay.client_sent)
    /\ IsPrefix(relay.client_got, relay.upstream_sent)

\* what has been delivered stays delivered, and one step delivers at most one
\* frame in one direction
C21_Step ==
  relay.pc # "none" =>
    /\ IsPrefix(relay.upstream_got, relay'.upstream_got)
    /\ IsPrefix(relay.client_got, relay'.client_got)
    /\ Len(relay'.upstream_got) + Len(relay'.client_got)
         <= Len(relay.upstream_got) + Len(relay.client_got) + 1

\* C21: in each direction of a session the frames delivered are at every
\* moment a prefix of the frames received: no frame is reordered, duplicated or
\* skipped, however the steps of the two directions (and of other sessions,
\* which leave this session's state alone) interleave.
C21_OrderPreserved == []C21_State /\ [][C21_Step]_vars

\* two different frames went up and two different frames came down
C21_Witness ==
  /\ relay.pc = "relaying"
  /\ Len(relay.upstream_got) = 2 /\ relay.upstream_got[1] # relay.upstream_got[2]
  /\ Len(relay.client_got) = 2 /\ relay.client_got[1] # relay.client_got[2]

(***************************************************************************)
(* C22                                                                     *)
(***************************************************************************)
Ended(task) == task \in {"done", "cancelled", "unborn"}

C22_State ==
  relay.pc \in {"teardown", "closing", "closed"} =>
    Ended(relay.up) /\ Ended(relay.down)

C22_Step ==
  /\ (relay.pc = "relaying" /\ relay'.pc # "relaying") =>
       /\ relay.up = "done" \/ relay.down = "done"
       /\ relay'.pc = "awaiting"
       /\ ~Ended(relay.up) => relay'.up = "cancelling"
       /\ ~Ended(relay.down) => relay'.down = "cancelling"
  /\ (relay.pc = "awaiting" /\ relay'.pc # "awaiting") =>
       /\ Ended(relay.up) /\ Ended(relay.down)
       /\ relay'.pc = "teardown"

C23_ExceptionsLogged ==
  relay.pc = "closed" =>
    /\ relay.errors \subseteq relay.logged
    /\ ~relay.propagated
    /\ relay.closes = 1

(***************************************************************************)
(* C24                                                                     *)
(***************************************************************************)
C24_State ==
  relay.pc # "none" =>
    /\ relay.closes = (IF relay.pc = "closed" THEN 1 ELSE 0)
    /\ relay.pc = "closed" =>
         /\ Ended(relay.up) /\ Ended(relay.down)
         /\ ~relay.upstream_open
         /\ ~relay.propagated

C24_Step ==
  (relay.pc # "none" /\ relay'.closes # relay.closes) =>
    /\ relay.pc = "closing"
    /\ Ended(relay.up) /\ Ended(relay.down)
    /\ ~relay.upstream_open

\* C24: on every exit path of an accepted session (client disconnect,
\* upstream close, failed dial, exception) the handler calls close on the
\* client socket exactly once, after both tasks have ended and the upstream
\* connection is released; an error of that close is swallowed.
C24_CloseOnce == []C24_State /\ [][C24_Step]_vars

\* the client went away, and closing its socket raised
C24_Witness ==
  /\ relay.pc = "closed" /\ relay.closes = 1 /\ relay.close_raised
  /\ relay.up = "done" /\ relay.down = "cancelled" /\ relay.errors = {}

(***************************************************************************)
(* The shared upstream HTTP client.  Clients are numbered in the order of  *)
(* their creation; 0 stands for None.  Two HTTP relays take the client,    *)
(* wait for the request body and then use the client they took.            *)
(***************************************************************************)
HttpRelays == {"h1", "h2"}

\* the module at import: _http_client = None
NewPool ==
  [on |-> TRUE, current |-> 0, open |-> {}, made |-> 0, op |-> "none", returned |-> 0,
   relays |-> [r \in HttpRelays |-> [pc |-> "idle", client |-> 0, sent |-> "none"]]]

\* _http_client.is_closed
is_closed(h, client) == client \notin h.open

\* a getter that makes a new client on every call
_get_http_client_always_new(h) ==
  [h EXCEPT !.made = @ + 1, !.current = h.made + 1, !.open = @ \cup {h.made + 1}]

\* lines 45-52: make a client when there is none or the current one is closed
_get_http_client(h) ==
  IF h.current = 0 \/ is_closed(h, h.current)
    THEN [h EXCEPT !.made = @ + 1, !.current = h.made + 1, !.open = @ \cup {h.made + 1}]
    ELSE h

\* lines 55-58: close the current client when there is one and it is open
close_http_client(h) ==
  IF h.current # 0 /\ ~is_closed(h, h.current)
    THEN [h EXCEPT !.open = @ \ {h.current}]
    ELSE h

InitClient ==
  /\ GateAtRest /\ call = NoCall /\ relay = NoRelay
  /\ pool = NewPool /\ ipban = Unused /\ codes = Unused
  /\ admin = Unused /\ tracker = Unused

\* line 140: client = _get_http_client()
AcquireClient ==
  /\ \E r \in HttpRelays :
       /\ pool.relays[r].pc = "idle"
       /\ (pool.current = 0 \/ is_closed(pool, pool.current)) => pool.made < MaxClients
       /\ LET h == _get_http_client(pool)
          IN  pool' = [h EXCEPT !.op = "get", !.returned = h.current,
                                !.relays[r] = [pc |-> "body", client |-> h.current,
                                               sent |-> "none"]]
  /\ UNCHANGED <<gate, call, relay, ipban, codes, admin, tracker>>

\* lines 141-152: the body has been read; client.stream(...) sends the request
\* on the client taken at line 140, which raises when that client is closed
StreamRequest ==
  /\ \E r \in HttpRelays :
       /\ pool.relays[r].pc = "body"
       /\ pool' = [pool EXCEPT !.relays[r].pc = "done",
                               !.relays[r].sent =
                                 IF is_closed(pool, pool.relays[r].client)
                                   THEN "closed client" ELSE "sent"]
  /\ UNCHANGED <<gate, call, relay, ipban, codes, admin, tracker>>

\* the relay returns its response; the next request may come
FinishRequest ==
  /\ \E r \in HttpRelays :
       /\ pool.relays[r].pc = "done"
       /\ pool' = [pool EXCEPT !.relays[r] = [pc |-> "idle", client |-> 0, sent |-> "none"]]
  /\ UNCHANGED <<gate, call, relay, ipban, codes, admin, tracker>>

\* close_http_client() is called
CloseHttpClient ==
  /\ pool' = [close_http_client(pool) EXCEPT !.op = "close"]
  /\ UNCHANGED <<gate, call, relay, ipban, codes, admin, tracker>>

NextClient ==
  \/ AcquireClient
  \/ StreamRequest
  \/ FinishRequest
  \/ CloseHttpClient

SpecClient == InitClient /\ [][NextClient]_vars

(***************************************************************************)
(* C25                                                                     *)
(***************************************************************************)
C25_State ==
  /\ Cardinality(pool.open) <= 1
  /\ pool.open \subseteq {pool.current}
  /\ pool.current <= pool.made
  /\ (pool.current = 0) <=> (pool.made = 0)
  /\ pool.op = "get" => (pool.returned = pool.current /\ pool.current \in pool.open)

C25_Step ==
  /\ (\E r \in HttpRelays : pool.relays[r].pc = "idle" /\ pool'.relays[r].pc = "body") =>
       /\ pool'.returned \in pool'.open
       /\ \A r \in HttpRelays :
            (pool.relays[r].pc = "idle" /\ pool'.relays[r].pc = "body") =>
              pool'.relays[r].client = pool'.returned
       /\ IF pool.current \in pool.open
            THEN pool'.returned = pool.current /\ pool'.made = pool.made
            ELSE pool'.returned = pool.made + 1 /\ pool'.made = pool.made + 1
  /\ (pool'.op = "close" /\ pool.op # "close") =>
       /\ pool'.open = {}
       /\ pool'.current = pool.current /\ pool'.made = pool.made
       /\ pool'.relays = pool.relays

\* C25: _get_http_client returns an open client: a new one on first use and
\* when the current one is closed, the current one while it is open; there is
\* never more than one open client; close_http_client closes the current
\* client when it is open and changes nothing otherwise.
C25_SharedClient == []C25_State /\ [][C25_Step]_vars

\* the client was closed and made anew twice; the third client is open and
\* both relays hold it
C25_Witness ==
  /\ pool.made = 3 /\ pool.current = 3 /\ pool.open = {3}
  /\ \A r \in HttpRelays : pool.relays[r].pc = "body" /\ pool.relays[r].client = 3

(***************************************************************************)
(* C26                                                                     *)
(***************************************************************************)
\* the handler is past _resolve_port and has not returned
Resolved(r) == r.pc \in {"upstream", "accept", "dial", "relay"}

C26_State ==
  (req.contacts > 0 \/ Resolved(req)) => req.port \in Ports

C26_Step ==
  /\ (req.pc = "resolve" /\ Resolved(req')) =>
       \E row \in Visible(req.instance_id, req.current_user, instances) :
         row.status = "running" /\ row.port = req'.port
  /\ Resolved(req) => req'.port = req.port
  /\ req'.contacts > req.contacts => (Resolved(req) /\ req'.port = req.port)
  /\ (req.pc \in {"idle", "done"} /\ req' # req) => req'.port = None

\* C26: the port the proxy contacts is the port read from the registry by
\* _resolve_port in this same request, from a row that was running then; a
\* new request starts without a port, so a request made after the registry
\* changed is decided on the registry as it is now.
C26_PortOfThisRequest == []C26_State /\ [][C26_Step]_vars

\* I1 was reached on port 7000, was restarted on port 7100, and the next
\* request of the same client reached it on port 7100
C26_Witness ==
  /\ Http(req) /\ req.followup /\ req.instance_id = "I1"
  /\ req.first_port = "7000" /\ req.port = "7100"
  /\ req.pc = "done" /\ req.contacts = 1 /\ req.status = 200

(***************************************************************************)
(* C27                                                                     *)
(***************************************************************************)
\* a request without the history the model keeps about its client
NoHistory(r) == [r EXCEPT !.followup = FALSE, !.first_user = NoUser, !.first_port = None]

\* the handler's state after its first step, from the inputs of the request
Arrived(r) ==
  LET n == NewRequest(r.kind, r.instance_id, r.auth_header, r.query_token, r.cookies)
  IN  IF r.kind = "http" THEN proxy_http_credential(n) ELSE proxy_websocket_credential(n)

C27_Step ==
  /\ instances' # instances => req' = req
  /\ (req.pc \in {"idle", "done"} /\ req' # req /\ req' # Idle) =>
       NoHistory(req') = Arrived(req')
  /\ (req.pc = "verify" /\ req'.pc # "verify") =>
       IF TokenFails(req.jwt_token, now)
         THEN req'.pc = "done" /\ req'.current_user = NoUser
         ELSE req'.pc = "resolve" /\ req'.current_user = users[TokenSub(req.jwt_token)]
  /\ (req.pc = "resolve" /\ req'.pc # "resolve") =>
       (Resolved(req') <=>
          \E row \in Visible(req.instance_id, req.current_user, instances) :
            row.status = "running" /\ row.port # None)

\* C27: no step of a relay writes the registry (or the identity store); the
\* server keeps no record of the cookies it issued; what a request is answered
\* depends on that request, the clock and the registry as they are, not on the
\* requests before it.
C27_Stateless == [][C27_Step]_vars

\* the holder of a cookie the proxy issued comes back after the token has
\* expired and is refused like anyone else
C27_Witness ==
  /\ Http(req) /\ req.followup /\ req.first_user # NoUser
  /\ req.instance_id = "I1" /\ req.first_port # None
  /\ req.pc = "done" /\ req.status = 401 /\ req.jwt_token \in UserTokens
  /\ now > TokenLife

(***************************************************************************)
(* The IP ban service.  Time is counted in units of 300 s, the length of   *)
(* the sliding window, so a ban of one hour lasts 12 units.  The service   *)
(* keeps the ban cache (banned) and the hit deques (hits) in memory; the   *)
(* table banned_ips outlives a restart.  recent and fresh are history:     *)
(* the times of an IP's 404 hits inside the trailing window, all of them   *)
(* (recent) and those since the service last cleared the IP's deque        *)
(* (fresh).                                                                *)
(***************************************************************************)
_LOOPBACK == {"127.0.0.1", "::1", "localhost"}

Ips == {"127.0.0.1", "9.9.9.9"}

\* 300 s, in units of 300 s
_WINDOW_SECONDS == 1

_HIT_THRESHOLD == 10

\* one hour, in units of 300 s
_BAN_HOURS == 12

\* one hour of a manual ban, in units of 300 s
Hour == 12

\* duration_hours of a manual ban
Durations == {1}

\* no entry in the dict _banned
NoBan == -1

\* last is the last answer the service gave, of is_banned or of unban
NoOp == [op |-> "none", ip |-> "none", result |-> FALSE]

\* IPBanService(): lines 27-29
NewService(clock, table) ==
  [on |-> TRUE, clock |-> clock,
   banned |-> [ip \in Ips |-> NoBan], hits |-> [ip \in Ips |-> <<>>],
   table |-> table,
   recent |-> [ip \in Ips |-> <<>>], fresh |-> [ip \in Ips |-> <<>>],
   last |-> NoOp]

\* lines 77-78: while hits and hits[0] < window_start: hits.popleft()
RECURSIVE Prune(_, _)
Prune(hits, window_start) ==
  IF hits # <<>> /\ Head(hits) < window_start
    THEN Prune(Tail(hits), window_start)
    ELSE hits

\* lines 34-44: the rows whose ban has not expired go into the cache
load_from_db(s) ==
  [s EXCEPT !.banned =
     [ip \in Ips |->
        IF \E row \in s.table : row.ip_address = ip /\ row.banned_until > s.clock
          THEN (CHOOSE row \in s.table : row.ip_address = ip /\ row.banned_until > s.clock).banned_until
          ELSE s.banned[ip]]]

\* lines 49-62: the answer of is_banned
is_banned(s, ip) ==
  /\ ip \notin _LOOPBACK
  /\ s.banned[ip] # NoBan
  /\ s.clock < s.banned[ip]

\* lines 59-61: is_banned drops the entry of a ban that has expired
is_banned_effect(s, ip) ==
  IF ip \notin _LOOPBACK /\ s.banned[ip] # NoBan /\ s.clock >= s.banned[ip]
    THEN [s EXCEPT !.banned[ip] = NoBan]
    ELSE s

\* lines 93-109: delete the IP's row, insert the new one, commit
_persist_ban(table, ip, banned_at, banned_until, hit_count) ==
  {row \in table : row.ip_address # ip}
    \cup {[ip_address |-> ip, banned_at |-> banned_at, banned_until |-> banned_until,
           hit_count |-> hit_count]}

\* record_404 with a window that is never pruned
record_404_no_window(s, ip) ==
  IF ip \in _LOOPBACK THEN s
  ELSE LET hits == Append(s.hits[ip], s.clock)
       IN  IF Len(hits) >= _HIT_THRESHOLD
             THEN [s EXCEPT !.banned[ip] = s.clock + _BAN_HOURS,
                            !.hits[ip] = <<>>,
                            !.table = _persist_ban(s.table, ip, s.clock,
                                                   s.clock + _BAN_HOURS, Len(hits))]
             ELSE [s EXCEPT !.hits[ip] = hits]

\* lines 67-91
record_404(s, ip) ==
  IF ip \in _LOOPBACK THEN s
  ELSE LET hits == Append(Prune(s.hits[ip], s.clock - _WINDOW_SECONDS), s.clock)
       IN  IF Len(hits) >= _HIT_THRESHOLD
             THEN [s EXCEPT !.banned[ip] = s.clock + _BAN_HOURS,
                            !.hits[ip] = <<>>,
                            !.table = _persist_ban(s.table, ip, s.clock,
                                                   s.clock + _BAN_HOURS, Len(hits))]
             ELSE [s EXCEPT !.hits[ip] = hits]

\* ban that does not look at _LOOPBACK
ban_any_ip(s, ip, duration_hours) ==
  [s EXCEPT !.banned[ip] = s.clock + duration_hours * Hour,
            !.hits[ip] = <<>>,
            !.table = _persist_ban(s.table, ip, s.clock,
                                   s.clock + duration_hours * Hour, 0)]

\* ban that leaves the hit record of the IP as it is
ban_keeps_hits(s, ip, duration_hours) ==
  IF ip \in _LOOPBACK THEN s
  ELSE [s EXCEPT !.banned[ip] = s.clock + duration_hours * Hour,
                 !.table = _persist_ban(s.table, ip, s.clock,
                                        s.clock + duration_hours * Hour, 0)]

\* lines 128-137
ban(s, ip, duration_hours) ==
  IF ip \in _LOOPBACK THEN s
  ELSE [s EXCEPT !.banned[ip] = s.clock + duration_hours * Hour,
                 !.hits[ip] = <<>>,
                 !.table = _persist_ban(s.table, ip, s.clock,
                                        s.clock + duration_hours * Hour, 0)]

\* line 140-143: the answer of unban: a row of the IP exists
unban_result(s, ip) == \E row \in s.table : row.ip_address = ip

\* unban that deletes the row and leaves the cache as it is
unban_keeps_cache(s, ip) ==
  IF ~unban_result(s, ip) THEN s
  ELSE [s EXCEPT !.table = {row \in s.table : row.ip_address # ip}]

\* lines 139-149
unban(s, ip) ==
  IF ~unban_result(s, ip) THEN s
  ELSE [s EXCEPT !.table = {row \in s.table : row.ip_address # ip},
                 !.banned[ip] = NoBan,
                 !.hits[ip] = <<>>]

\* the history of one call: a hit is noted, and the hits noted since the
\* deque of the IP was last emptied are forgotten when the call empties it
Noted(s, t, ip, hit) ==
  LET recent == IF hit /\ ip \notin _LOOPBACK THEN Append(s.recent[ip], s.clock)
                                              ELSE s.recent[ip]
      fresh == IF t.hits[ip] = <<>> THEN <<>>
               ELSE IF hit THEN Append(s.fresh[ip], s.clock)
               ELSE s.fresh[ip]
  IN  [t EXCEPT !.recent[ip] = recent, !.fresh[ip] = fresh]

InitBan ==
  /\ GateAtRest /\ call = NoCall /\ relay = NoRelay
  /\ pool = Unused /\ codes = Unused /\ admin = Unused /\ tracker = Unused
  /\ ipban = NewService(0, {})

\* 300 s pass; the hits that have left the window leave the history
BanTick ==
  /\ ipban.clock < MaxClock
  /\ ipban' = [ipban EXCEPT
       !.clock = @ + 1,
       !.recent = [ip \in Ips |-> Prune(ipban.recent[ip], ipban.clock + 1 - _WINDOW_SECONDS)],
       !.fresh = [ip \in Ips |-> Prune(ipban.fresh[ip], ipban.clock + 1 - _WINDOW_SECONDS)],
       !.last = NoOp]
  /\ UNCHANGED <<gate, call, relay, pool, codes, admin, tracker>>

\* a request of the IP was answered 404
Record404 ==
  /\ \E ip \in Ips :
       /\ Len(ipban.recent[ip]) < MaxHits
       /\ ipban' = [Noted(ipban, record_404(ipban, ip), ip, TRUE) EXCEPT
                      !.last = NoOp]
  /\ UNCHANGED <<gate, call, relay, pool, codes, admin, tracker>>

\* a request of the IP arrives and the IP is looked up
CheckBanned ==
  /\ \E ip \in Ips :
       ipban' = [is_banned_effect(ipban, ip) EXCEPT
                   !.last = [op |-> "is_banned", ip |-> ip, result |-> is_banned(ipban, ip)]]
  /\ UNCHANGED <<gate, call, relay, pool, codes, admin, tracker>>

\* POST /banned-ips by an admin
ManualBan ==
  /\ \E ip \in Ips, duration_hours \in Durations :
       ipban' = [Noted(ipban, ban(ipban, ip, duration_hours), ip, FALSE) EXCEPT
                   !.last = NoOp]
  /\ UNCHANGED <<gate, call, relay, pool, codes, admin, tracker>>

\* DELETE /banned-ips/{ip} by an admin
Unban ==
  /\ \E ip \in Ips :
       ipban' = [Noted(ipban, unban(ipban, ip), ip, FALSE) EXCEPT
                   !.last = [op |-> "unban", ip |-> ip, result |-> unban_result(ipban, ip)]]
  /\ UNCHANGED <<gate, call, relay, pool, codes, admin, tracker>>

\* the process starts again: a new service, then load_from_db
Restart ==
  /\ ipban' = [load_from_db(NewService(ipban.clock, ipban.table)) EXCEPT
                 !.recent = ipban.recent,
                 !.last = NoOp]
  /\ UNCHANGED <<gate, call, relay, pool, codes, admin, tracker>>

\* load_from_db is called on the running service
LoadFromDb ==
  /\ ipban' = [load_from_db(ipban) EXCEPT !.last = NoOp]
  /\ UNCHANGED <<gate, call, relay, pool, codes, admin, tracker>>

NextBan ==
  \/ BanTick
  \/ LoadFromDb
  \/ Record404
  \/ CheckBanned
  \/ ManualBan
  \/ Unban
  \/ Restart

SpecBan == InitBan /\ [][NextBan]_vars

\* a step in which record_404 noted a hit of the IP
Recorded(ip) ==
  /\ ipban.on /\ ipban'.on
  /\ Len(ipban'.recent[ip]) = Len(ipban.recent[ip]) + 1

\* the step banned the IP for one hour from now and wrote the row of the ban
BannedNow(ip) ==
  /\ ipban'.banned[ip] = ipban.clock + _BAN_HOURS
  /\ \E row \in ipban'.table :
       /\ row.ip_address = ip
       /\ row.banned_at = ipban.clock
       /\ row.banned_until = ipban.clock + _BAN_HOURS

\* the step changed no ban
NoBanChanged ==
  /\ ipban'.banned = ipban.banned
  /\ ipban'.table = ipban.table

\* a step in which is_banned answered
Answered ==
  /\ ipban.on /\ ipban'.on
  /\ ipban'.last.op = "is_banned"
  /\ ipban'.last # ipban.last

C28_Step ==
  /\ \A ip \in Ips \ _LOOPBACK :
       Recorded(ip) =>
         IF Len(ipban.fresh[ip]) + 1 >= _HIT_THRESHOLD
           THEN BannedNow(ip)
           ELSE NoBanChanged
  /\ Answered =>
       LET ip == ipban'.last.ip
       IN  ipban'.last.result =
             (ip \notin _LOOPBACK /\ ipban.banned[ip] # NoBan /\ ipban.clock < ipban.banned[ip])

CachedBan(s, ip) ==
  IF s.banned[ip] # NoBan /\ s.banned[ip] > s.clock THEN s.banned[ip] ELSE NoBan

\* the rows of the IP in the table banned_ips
RowsOf(s, ip) == {row \in s.table : row.ip_address = ip}

\* the ends of the bans of the IP that the table holds and that lie in the future
StoredBans(s, ip) ==
  {row.banned_until : row \in {r \in RowsOf(s, ip) : r.banned_until > s.clock}}

C29_State ==
  ipban.on =>
    \A ip \in Ips :
      /\ Cardinality(RowsOf(ipban, ip)) <= 1
      /\ StoredBans(ipban, ip) =
           IF CachedBan(ipban, ip) = NoBan THEN {} ELSE {CachedBan(ipban, ip)}

C29_Step ==
  (ipban.on /\ ipban'.on /\ ipban'.last.op = "unban" /\ ipban'.last # ipban.last) =>
    LET ip == ipban'.last.ip
    IN  /\ ipban'.last.result = (RowsOf(ipban, ip) # {})
        /\ RowsOf(ipban', ip) = {}
        /\ CachedBan(ipban', ip) = NoBan

\* C29: after every completed call of load_from_db, record_404, ban and unban an
\* IP has an unexpired entry in the ban cache exactly when the table banned_ips
\* holds a row of it with banned_until in the future, and the two ends agree;
\* the table holds at most one row per IP; unban answers True exactly when a
\* row of the IP existed, and leaves the IP unbanned in the cache and the table
C29_CacheMatchesTable == []C29_State /\ [][C29_Step]_vars

\* unban has answered True for the IP, and neither the cache nor the table
\* holds a ban of it any more
C29_Witness ==
  /\ ipban.on
  /\ ipban.last = [op |-> "unban", ip |-> "9.9.9.9", result |-> TRUE]
  /\ ipban.clock > 0
  /\ ipban.table = {}
  /\ ipban.banned["9.9.9.9"] = NoBan

(***************************************************************************)
(* Invite codes.  Time is counted in hours.  The table registration_codes  *)
(* and the column max_invite_codes of table users are the state; last is   *)
(* the answer of the last request.                                         *)
(***************************************************************************)
CodeUsers == {"u1", "adm"}

\* expires_in_hours of a request
ExpiresInHours == {1}

\* User.max_invite_codes: default=2
DefaultInvite == 2

\* used_at of a code that nobody has used
NotUsed == -1

NoAnswer == [op |-> "none", user |-> "none", status |-> 0, code |-> 0]

NewCodes ==
  [on |-> TRUE, clock |-> 0, registration_codes |-> {}, made |-> 0,
   max_invite_codes |-> [u \in CodeUsers |-> DefaultInvite],
   last |-> NoAnswer]

\* RegistrationCode.is_valid
is_valid(c, clock) == c.used_at = NotUsed /\ c.expires_at > clock

\* lines 43-49: the count of the first query, of the user's unused codes
active_count_unused(s, u) ==
  Cardinality({c \in s.registration_codes : c.created_by = u /\ c.used_at = NotUsed})

\* lines 51-58: the user's unused codes that are valid
active_count(s, u) ==
  Cardinality({c \in {d \in s.registration_codes : d.created_by = u /\ d.used_at = NotUsed} :
                 is_valid(c, s.clock)})

\* registration.py lines 17-34
create_registration_code(s, expires_in_hours, created_by) ==
  [s EXCEPT !.made = @ + 1,
            !.registration_codes = @ \cup
               {[id |-> s.made + 1, expires_at |-> s.clock + expires_in_hours,
                 used_at |-> NotUsed, created_by |-> created_by]}]

\* codes.py lines 27-80
generate_code(s, u, expires_in_hours) ==
  IF ~is_admin(users[u]) /\ active_count(s, u) >= s.max_invite_codes[u]
    THEN [s EXCEPT !.last = [op |-> "generate", user |-> u, status |-> 403, code |-> 0]]
    ELSE [create_registration_code(s, expires_in_hours, u) EXCEPT
            !.last = [op |-> "generate", user |-> u, status |-> 200, code |-> s.made + 1]]

\* codes.py lines 141-164: the status delete_code answers with
delete_code_status(s, u, code_id) ==
  LET found == {c \in s.registration_codes : c.id = code_id}
  IN  IF found = {} THEN 404
      ELSE LET reg_code == CHOOSE c \in found : TRUE
           IN  IF ~is_admin(users[u]) /\ reg_code.created_by # u THEN 403
               ELSE IF reg_code.used_at # NotUsed THEN 400
               ELSE 204

\* delete_code that lets an admin delete a used code
delete_code_admin_any(s, u, code_id) ==
  LET status == IF is_admin(users[u]) /\ delete_code_status(s, u, code_id) = 400
                  THEN 204 ELSE delete_code_status(s, u, code_id)
  IN  [s EXCEPT !.registration_codes =
                  IF status = 204 THEN {c \in @ : c.id # code_id} ELSE @,
                !.last = [op |-> "delete", user |-> u, status |-> status, code |-> code_id]]

\* codes.py lines 132-171
delete_code(s, u, code_id) ==
  LET status == delete_code_status(s, u, code_id)
  IN  [s EXCEPT !.registration_codes =
                  IF status = 204 THEN {c \in @ : c.id # code_id} ELSE @,
                !.last = [op |-> "delete", user |-> u, status |-> status, code |-> code_id]]

\* registration.py lines 51-64
mark_code_as_used(s, code_id) ==
  [s EXCEPT !.registration_codes =
     {IF c.id = code_id THEN [c EXCEPT !.used_at = s.clock] ELSE c : c \in @}]

InitCodes ==
  /\ GateAtRest /\ call = NoCall /\ relay = NoRelay
  /\ pool = Unused /\ ipban = Unused /\ admin = Unused /\ tracker = Unused
  /\ codes = NewCodes

\* an hour passes
CodeTick ==
  /\ codes.clock < MaxCodeClock
  /\ codes' = [codes EXCEPT !.clock = @ + 1, !.last = NoAnswer]
  /\ UNCHANGED <<gate, call, relay, pool, ipban, admin, tracker>>

\* POST /codes/generate
GenerateCode ==
  /\ codes.made < MaxCodes
  /\ \E u \in CodeUsers, expires_in_hours \in ExpiresInHours :
       codes' = generate_code(codes, u, expires_in_hours)
  /\ UNCHANGED <<gate, call, relay, pool, ipban, admin, tracker>>

\* DELETE /codes/{code_id}
DeleteCode ==
  /\ \E u \in CodeUsers, code_id \in 1..MaxCodes :
       codes' = delete_code(codes, u, code_id)
  /\ UNCHANGED <<gate, call, relay, pool, ipban, admin, tracker>>

\* a new user registers with the code
UseCode ==
  /\ \E c \in codes.registration_codes :
       codes' = [mark_code_as_used(codes, c.id) EXCEPT !.last = NoAnswer]
  /\ UNCHANGED <<gate, call, relay, pool, ipban, admin, tracker>>

\* PATCH /admin/users/{user_id}/invite-limit by an admin, for a user whose
\* limit is read (that of an admin never is)
SetInviteLimit ==
  /\ \E u \in {v \in CodeUsers : ~is_admin(users[v])}, n \in 0..MaxInvite :
       codes' = [codes EXCEPT !.max_invite_codes[u] = n, !.last = NoAnswer]
  /\ UNCHANGED <<gate, call, relay, pool, ipban, admin, tracker>>

NextCodes ==
  \/ CodeTick
  \/ GenerateCode
  \/ DeleteCode
  \/ UseCode
  \/ SetInviteLimit

SpecCodes == InitCodes /\ [][NextCodes]_vars

\* the codes the user created that are unused and unexpired
OwnActive(s, u) ==
  {c \in s.registration_codes :
     c.created_by = u /\ c.used_at = NotUsed /\ c.expires_at > s.clock}

\* a step in which POST /codes/generate answered
Generated ==
  /\ codes.on /\ codes'.on
  /\ codes'.last.op = "generate"
  /\ codes' # codes

C30_Step ==
  Generated =>
    LET u == codes'.last.user
        fresh == codes'.registration_codes \ codes.registration_codes
    IN  IF is_admin(users[u]) \/ Cardinality(OwnActive(codes, u)) < codes.max_invite_codes[u]
          THEN /\ codes'.last.status = 200
               /\ codes.registration_codes \subseteq codes'.registration_codes
               /\ Cardinality(fresh) = 1
               /\ \A c \in fresh : c.created_by = u /\ c.used_at = NotUsed
          ELSE /\ codes'.last.status = 403
               /\ codes'.registration_codes = codes.registration_codes

\* C30: POST /codes/generate by a non-admin creates a code exactly when the
\* user's own unused and unexpired codes number fewer than the user's
\* max_invite_codes, and otherwise answers 403 and creates nothing; used,
\* expired and deleted codes do not count; an admin is never limited
C30_InviteLimit == [][C30_Step]_vars

\* a non-admin was given a code while the codes the user has created, used and
\* expired ones included, already number the user's limit or more
C30_Witness ==
  /\ codes.on
  /\ codes.last.op = "generate" /\ codes.last.status = 200 /\ codes.last.user = "u1"
  /\ codes.max_invite_codes["u1"] > 0
  /\ Cardinality({c \in codes.registration_codes : c.created_by = "u1"})
       > codes.max_invite_codes["u1"]
  /\ \E c \in codes.registration_codes : c.created_by = "u1" /\ c.used_at # NotUsed
  /\ codes.made > Cardinality(codes.registration_codes)

\* a step in which DELETE /codes/{id} answered
Deleted ==
  /\ codes.on /\ codes'.on
  /\ codes'.last.op = "delete"
  /\ codes'.last # codes.last \/ codes'.registration_codes # codes.registration_codes

\* the codes with this id
CodesWithId(s, code_id) == {c \in s.registration_codes : c.id = code_id}

C31_Step ==
  Deleted =>
    LET u == codes'.last.user
        found == CodesWithId(codes, codes'.last.code)
        status == codes'.last.status
    IN  /\ status = 404 <=> found = {}
        /\ status = 403 <=> \E c \in found : ~is_admin(users[u]) /\ c.created_by # u
        /\ status = 400 <=> \E c \in found :
                              /\ is_admin(users[u]) \/ c.created_by = u
                              /\ c.used_at # NotUsed
        /\ status = 204 <=> \E c \in found :
                              /\ is_admin(users[u]) \/ c.created_by = u
                              /\ c.used_at = NotUsed
        /\ status = 204 => codes'.registration_codes = codes.registration_codes \ found
        /\ status # 204 => codes'.registration_codes = codes.registration_codes
        /\ \A c \in codes.registration_codes :
             c.used_at # NotUsed => c \in codes'.registration_codes

\* C31: DELETE /codes/{id} answers 404 when no such code exists, else 403 when
\* the caller is neither an admin nor the creator, else 400 when the code has
\* been used, else 204 and removes the code; an error leaves the codes
\* unchanged, so a used code is never deleted
C31_DeleteOrder == [][C31_Step]_vars

\* a non-admin asked to delete another user's used code and was answered 403,
\* not 400
C31_Witness ==
  /\ codes.on
  /\ codes.last.op = "delete" /\ codes.last.status = 403
  /\ \E c \in codes.registration_codes :
       c.id = codes.last.code /\ c.used_at # NotUsed /\ c.created_by # codes.last.user

(***************************************************************************)
(* The /admin endpoints.  admin.users is table users with the columns the  *)
(* endpoints read and write, admin.registry holds table registration_codes *)
(* and admin.bans the IP ban service with table banned_ips.  A request     *)
(* body that the framework's validation of the declared request model      *)
(* rejects is answered 422 before the endpoint function is called.         *)
(***************************************************************************)
AdminUsers == {"u1", "adm"}

\* user_id in the path: the users and an id that table users does not hold
AskedUserIds == AdminUsers \cup {"ghost"}

\* UserRole
UserRoles == {"admin", "user"}

\* max_invite_codes in the body of update_invite_limit
AskedLimits == -1..MaxInvite

NoAdminAnswer ==
  [op |-> "none", caller |-> "none", valid |-> TRUE, status |-> 0, user_id |-> "none", value |-> 0]

NewAdmin ==
  [on |-> TRUE,
   users |-> [u \in AdminUsers |->
                [id |-> u, role |-> users[u].role, max_invite_codes |-> DefaultInvite]],
   registry |-> NewCodes,
   bans |-> NewService(0, {}),
   last |-> NoAdminAnswer]

\* raise HTTPException(status_code) / return
Answer(s, op, caller, status) ==
  [s EXCEPT !.last = [NoAdminAnswer EXCEPT !.op = op, !.caller = caller, !.status = status]]

\* the framework answers 422 to a body that does not fit the request model
Validated(s, op, caller, valid, handled) ==
  IF valid THEN handled
  ELSE [Answer(s, op, caller, 422) EXCEPT !.last.valid = FALSE]

\* admin.py lines 34-52, 167-212, 218-235, 290-306: the endpoints that only read
list_only(s, op, caller) ==
  IF ~is_admin(s.users[caller]) THEN Answer(s, op, caller, 403)
  ELSE Answer(s, op, caller, 200)

\* admin.py lines 55-88
update_user_role(s, caller, user_id, role) ==
  LET a == [Answer(s, "update_user_role", caller, 0) EXCEPT !.last.user_id = user_id]
  IN  IF ~is_admin(s.users[caller]) THEN [a EXCEPT !.last.status = 403]
      ELSE IF user_id \notin DOMAIN s.users THEN [a EXCEPT !.last.status = 404]
      ELSE [a EXCEPT !.users[user_id].role = role, !.last.status = 200]

\* update_invite_limit that looks at the value before it looks at the caller
update_invite_limit_value_first(s, caller, user_id, max_invite_codes) ==
  LET a == [Answer(s, "update_invite_limit", caller, 0) EXCEPT
              !.last.user_id = user_id, !.last.value = max_invite_codes]
  IN  IF max_invite_codes < 0 THEN [a EXCEPT !.last.status = 400]
      ELSE IF ~is_admin(s.users[caller]) THEN [a EXCEPT !.last.status = 403]
      ELSE IF user_id \notin DOMAIN s.users THEN [a EXCEPT !.last.status = 404]
      ELSE [a EXCEPT !.users[user_id].max_invite_codes = max_invite_codes, !.last.status = 200]

\* update_invite_limit that looks the user up before it looks at the value
update_invite_limit_lookup_first(s, caller, user_id, max_invite_codes) ==
  LET a == [Answer(s, "update_invite_limit", caller, 0) EXCEPT
              !.last.user_id = user_id, !.last.value = max_invite_codes]
  IN  IF ~is_admin(s.users[caller]) THEN [a EXCEPT !.last.status = 403]
      ELSE IF user_id \notin DOMAIN s.users THEN [a EXCEPT !.last.status = 404]
      ELSE IF max_invite_codes < 0 THEN [a EXCEPT !.last.status = 400]
      ELSE [a EXCEPT !.users[user_id].max_invite_codes = max_invite_codes, !.last.status = 200]

\* admin.py lines 91-130
update_invite_limit(s, caller, user_id, max_invite_codes) ==
  LET a == [Answer(s, "update_invite_limit", caller, 0) EXCEPT
              !.last.user_id = user_id, !.last.value = max_invite_codes]
  IN  IF ~is_admin(s.users[caller]) THEN [a EXCEPT !.last.status = 403]
      ELSE IF max_invite_codes < 0 THEN [a EXCEPT !.last.status = 400]
      ELSE IF user_id \notin DOMAIN s.users THEN [a EXCEPT !.last.status = 404]
      ELSE [a EXCEPT !.users[user_id].max_invite_codes = max_invite_codes, !.last.status = 200]

\* admin.py lines 135-164
generate_registration_code(s, caller, expires_in_hours) ==
  IF ~is_admin(s.users[caller]) THEN Answer(s, "generate_registration_code", caller, 403)
  ELSE [Answer(s, "generate_registration_code", caller, 200) EXCEPT
          !.registry = create_registration_code(s.registry, expires_in_hours, caller)]

\* admin.py lines 238-256
ban_ip(s, caller, ip_address, duration_hours) ==
  IF ~is_admin(s.users[caller]) THEN Answer(s, "ban_ip", caller, 403)
  ELSE [Answer(s, "ban_ip", caller, 201) EXCEPT !.bans = ban(s.bans, ip_address, duration_hours)]

\* admin.py lines 259-284
unban_ip(s, caller, ip) ==
  IF ~is_admin(s.users[caller]) THEN Answer(s, "unban_ip", caller, 403)
  ELSE IF ~unban_result(s.bans, ip) THEN Answer(s, "unban_ip", caller, 404)
  ELSE [Answer(s, "unban_ip", caller, 200) EXCEPT !.bans = unban(s.bans, ip)]

InitAdmin ==
  /\ GateAtRest /\ call = NoCall /\ relay = NoRelay
  /\ pool = Unused /\ ipban = Unused /\ codes = Unused /\ tracker = Unused
  /\ admin = NewAdmin

\* GET /admin/users, /admin/codes, /admin/banned-ips, /admin/connected-ips
ListOnly ==
  /\ \E caller \in AdminUsers,
        op \in {"list_all_users", "list_registration_codes", "list_banned_ips",
                "list_connected_ips"} :
       admin' = list_only(admin, op, caller)
  /\ UNCHANGED <<gate, call, relay, pool, ipban, codes, tracker>>

\* PATCH /admin/users/{user_id}/role
UpdateUserRole ==
  /\ \E caller \in AdminUsers, user_id \in AskedUserIds, role \in UserRoles, valid \in BOOLEAN :
       admin' = Validated(admin, "update_user_role", caller, valid,
                          update_user_role(admin, caller, user_id, role))
  /\ UNCHANGED <<gate, call, relay, pool, ipban, codes, tracker>>

\* PATCH /admin/users/{user_id}/invite-limit
UpdateInviteLimit ==
  /\ \E caller \in AdminUsers, user_id \in AskedUserIds, n \in AskedLimits, valid \in BOOLEAN :
       admin' = Validated(admin, "update_invite_limit", caller, valid,
                          update_invite_limit(admin, caller, user_id, n))
  /\ UNCHANGED <<gate, call, relay, pool, ipban, codes, tracker>>

\* POST /admin/codes/generate
GenerateRegistrationCode ==
  /\ admin.registry.made < MaxCodes
  /\ \E caller \in AdminUsers, expires_in_hours \in ExpiresInHours, valid \in BOOLEAN :
       admin' = Validated(admin, "generate_registration_code", caller, valid,
                          generate_registration_code(admin, caller, expires_in_hours))
  /\ UNCHANGED <<gate, call, relay, pool, ipban, codes, tracker>>

\* POST /admin/banned-ips
BanIp ==
  /\ \E caller \in AdminUsers, ip \in Ips, duration_hours \in Durations, valid \in BOOLEAN :
       admin' = Validated(admin, "ban_ip", caller, valid,
                          ban_ip(admin, caller, ip, duration_hours))
  /\ UNCHANGED <<gate, call, relay, pool, ipban, codes, tracker>>

\* DELETE /admin/banned-ips/{ip}
UnbanIp ==
  /\ \E caller \in AdminUsers, ip \in Ips :
       admin' = unban_ip(admin, caller, ip)
  /\ UNCHANGED <<gate, call, relay, pool, ipban, codes, tracker>>

NextAdmin ==
  \/ ListOnly
  \/ UpdateUserRole
  \/ UpdateInviteLimit
  \/ GenerateRegistrationCode
  \/ BanIp
  \/ UnbanIp

SpecAdmin == InitAdmin /\ [][NextAdmin]_vars

\* a step in which an /admin endpoint answered a caller who is not an admin
NonAdminAnswered ==
  /\ admin.on /\ admin'.on
  /\ admin' # admin
  /\ ~is_admin(admin.users[admin'.last.caller])

\* the step left users, codes and bans as they were
TablesUnchanged ==
  /\ admin'.users = admin.users
  /\ admin'.registry = admin.registry
  /\ admin'.bans = admin.bans

\* C32 as stated: every /admin endpoint called by an authenticated non-admin
\* answers 403 and leaves users, codes and bans unchanged
C32_Always403 ==
  [][NonAdminAnswered => admin'.last.status = 403 /\ TablesUnchanged]_vars

C32_Step ==
  NonAdminAnswered =>
    /\ admin'.last.valid => admin'.last.status = 403
    /\ admin'.last.status \in {403, 422}
    /\ TablesUnchanged

\* C32, amended: every /admin endpoint called by an authenticated non-admin
\* with a request that passes the validation of the request model answers 403
\* before any other check of the endpoint, and, whether the request passes the
\* validation or is answered 422, leaves users, codes and bans unchanged
C32_NonAdminForbidden == [][C32_Step]_vars

\* a non-admin asked for a negative invite limit for an unknown user and was
\* answered 403
C32_Witness ==
  /\ admin.on
  /\ admin.last.op = "update_invite_limit" /\ admin.last.status = 403
  /\ admin.last.value < 0 /\ admin.last.user_id = "ghost"
  /\ ~is_admin(admin.users[admin.last.caller])

C33_State ==
  admin.on => \A u \in DOMAIN admin.users : admin.users[u].max_invite_codes >= 0

C33_Step ==
  ( /\ admin.on /\ admin'.on
    /\ admin' # admin
    /\ admin'.last.op = "update_invite_limit"
    /\ admin'.last.valid
    /\ is_admin(admin.users[admin'.last.caller]) ) =>
    LET user_id == admin'.last.user_id
        value == admin'.last.value
        status == admin'.last.status
    IN  /\ value < 0 => status = 400 /\ admin'.users = admin.users
        /\ value >= 0 /\ user_id \notin DOMAIN admin.users =>
             status = 404 /\ admin'.users = admin.users
        /\ value >= 0 /\ user_id \in DOMAIN admin.users =>
             /\ status = 200
             /\ admin'.users = [admin.users EXCEPT ![user_id].max_invite_codes = value]

\* C33: every user's max_invite_codes is non-negative in every reachable state;
\* update_invite_limit by an admin answers 400 to a negative value, also for an
\* unknown user, and changes nothing, answers 404 to a non-negative value for
\* an unknown user, and otherwise sets the value to the requested one
C33_LimitNonNegative == []C33_State /\ [][C33_Step]_vars

\* an admin asked for a negative limit for an unknown user and was answered 400
C33_Witness ==
  /\ admin.on
  /\ admin.last.op = "update_invite_limit" /\ admin.last.status = 400
  /\ admin.last.value < 0 /\ admin.last.user_id = "ghost"

\* the transport errors of one client.stream call: httpx.TransportError
TransportErrors == {"ConnectError", "TimeoutException", "ReadError"}

\* C34: every upstream transport error in proxy_http (connection refused,
\* timeout, protocol error such as a failed read) is answered with one of the
\* proxy's status codes 502 and 504, and none leaves the handler as an
\* unhandled exception
C34_TransportErrorsMapped ==
  (req.kind = "http" /\ req.pc = "done" /\ req.upstream \in TransportErrors) =>
    /\ req.status \in {502, 504}
    /\ req.detail # "Internal Server Error"

\* C35: a loopback address is never banned: in every state the service can
\* reach, is_banned answers False for it, neither the cache nor the table
\* holds a ban of it, and record_404 and ban called with it change neither the
\* state in memory nor the table
C35_LoopbackNeverBanned ==
  ipban.on =>
    \A ip \in _LOOPBACK :
      /\ ~is_banned(ipban, ip)
      /\ is_banned_effect(ipban, ip) = ipban
      /\ record_404(ipban, ip) = ipban
      /\ \A duration_hours \in Durations : ban(ipban, ip, duration_hours) = ipban
      /\ RowsOf(ipban, ip) = {}
      /\ ip \in Ips => ipban.banned[ip] = NoBan /\ ipban.hits[ip] = <<>>

\* is_banned has answered False for a loopback address while another address
\* is banned
C35_Witness ==
  /\ ipban.on
  /\ ipban.last = [op |-> "is_banned", ip |-> "127.0.0.1", result |-> FALSE]
  /\ is_banned(ipban, "9.9.9.9")
  /\ ipban.table # {}

\* the hit times are in non-decreasing order
NonDecreasing(hits) == \A i \in 1..(Len(hits) - 1) : hits[i] <= hits[i + 1]

C36_State ==
  ipban.on =>
    \A ip \in Ips :
      LET hits == ipban.hits[ip]
      IN  /\ Len(hits) < _HIT_THRESHOLD
          /\ NonDecreasing(hits)
          /\ \A i \in 1..Len(hits) : hits[i] >= hits[Len(hits)] - _WINDOW_SECONDS

C36_Step ==
  (ipban.on /\ ipban'.on) =>
    \A ip \in Ips :
      /\ (ipban'.banned[ip] # NoBan /\ ipban'.banned[ip] # ipban.banned[ip]) =>
           ipban'.hits[ip] = <<>>
      /\ (ipban'.table # ipban.table /\ RowsOf(ipban', ip) # RowsOf(ipban, ip)) =>
           ipban'.hits[ip] = <<>>

\* C36: for every IP the recorded 404 hit times number fewer than 10, are in
\* non-decreasing order and all lie inside the 300 s window that ended at the
\* last recorded hit; and whenever a ban of an IP is set or removed its hit
\* record is emptied
C36_HitsBounded == []C36_State /\ [][C36_Step]_vars

\* nine hits of an IP are on record, the oldest one window older than the last
C36_Witness ==
  /\ ipban.on
  /\ Len(ipban.hits["9.9.9.9"]) = _HIT_THRESHOLD - 1
  /\ Head(ipban.hits["9.9.9.9"]) = ipban.hits["9.9.9.9"][_HIT_THRESHOLD - 1] - _WINDOW_SECONDS
  /\ ipban.table # {}

\* The event loop runs every task that can take a step: the handler is
\* resumed when asyncio.wait, an awaited task, the exit of the async with
\* block or websocket.close() completes, and a cancelled task is resumed with
\* CancelledError.
FairSpecRelay ==
  /\ SpecRelay
  /\ WF_vars(CancelPending)
  /\ WF_vars(TaskCancelled)
  /\ WF_vars(Awaited)
  /\ WF_vars(ReleaseUpstream)
  /\ WF_vars(CloseClient)

\* one direction of a relaying session has ended
OneSideEnded ==
  /\ relay.pc = "relaying"
  /\ relay.up = "done" \/ relay.down = "done"

\* CLOSED: both tasks ended, upstream connection closed, client close attempted
SessionClosed ==
  /\ relay.pc = "closed"
  /\ Ended(relay.up) /\ Ended(relay.down)
  /\ ~relay.upstream_open
  /\ relay.closes = 1

\* C37: once the client disconnects, or the upstream closes or fails, during
\* relaying, the session eventually reaches CLOSED, under fair scheduling of
\* the tasks; no session stays in RELAYING for ever after one side has ended
C37_EventuallyClosed == OneSideEnded ~> SessionClosed

\* a session is closed after its upstream ended while the client's direction
\* was still waiting for a frame
C37_Witness ==
  /\ relay.pc = "closed"
  /\ relay.down = "done" /\ relay.up = "cancelled"
  /\ ~relay.upstream_open /\ relay.closes = 1

\* C38: the client a relay obtained from _get_http_client is still open when
\* that relay uses it to issue the upstream request, under every interleaving
\* of the relays with each other and with close_http_client
C38_ClientOpenAtUse ==
  pool.on => \A r \in HttpRelays : pool.relays[r].sent # "closed client"

(***************************************************************************)
(* POST /codes/generate with requests in flight at the same time.  The     *)
(* handler awaits the database between its count (lines 39-63) and its     *)
(* insert (lines 65-69), so another request can run in between.            *)
(***************************************************************************)
GenRequests == {"g1", "g2"}

NoFlight == [pc |-> "idle", user |-> "none"]

\* codes.py lines 39-63: the request is not answered 403
passes_limit(s, u) ==
  is_admin(users[u]) \/ active_count(s, u) < s.max_invite_codes[u]

InitCodesRace ==
  /\ GateAtRest /\ call = NoCall /\ relay = NoRelay
  /\ pool = Unused /\ ipban = Unused /\ admin = Unused /\ tracker = Unused
  /\ codes = [flights |-> [q \in GenRequests |-> NoFlight]] @@ NewCodes

\* lines 39-63: the request counts the user's active codes and is answered 403
\* or goes on
CountCodes ==
  /\ \E q \in GenRequests, u \in CodeUsers :
       /\ codes.flights[q].pc = "idle"
       /\ codes' = [codes EXCEPT !.flights[q] =
                      IF passes_limit(codes, u) THEN [pc |-> "create", user |-> u]
                                                ELSE NoFlight]
  /\ UNCHANGED <<gate, call, relay, pool, ipban, admin, tracker>>

\* lines 65-80: the request inserts its code and answers 200
CreateCode ==
  /\ codes.made < MaxCodes
  /\ \E q \in GenRequests, expires_in_hours \in ExpiresInHours :
       /\ codes.flights[q].pc = "create"
       /\ codes' = [create_registration_code(codes, expires_in_hours, codes.flights[q].user)
                      EXCEPT !.flights[q] = NoFlight]
  /\ UNCHANGED <<gate, call, relay, pool, ipban, admin, tracker>>

NextCodesRace ==
  \/ CountCodes
  \/ CreateCode
  \/ CodeTick
  \/ DeleteCode
  \/ UseCode

SpecCodesRace == InitCodesRace /\ [][NextCodesRace]_vars

\* C39: in every reachable state, also with POST /codes/generate requests of
\* one non-admin user in flight at the same time, the user's unused and
\* unexpired codes number no more than the user's max_invite_codes (which no
\* step of this specification changes)
C39_LimitNeverExceeded ==
  codes.on =>
    \A u \in {v \in CodeUsers : ~is_admin(users[v])} :
      Cardinality(OwnActive(codes, u)) <= codes.max_invite_codes[u]

(***************************************************************************)
(* The IP tracker service.  tracker.ips is the dict _ips, tracker.dirty    *)
(* the set _dirty, tracker.table the committed rows of connected_ips.  A   *)
(* flush runs in steps: it takes the dirty set, writes one row per await   *)
(* into its transaction (staged) and commits; the database may fail at     *)
(* any write or at the commit.  Times are the number of the recorded       *)
(* request.                                                                *)
(***************************************************************************)
TrackedIps == {"9.9.9.9", "8.8.8.8"}

\* the addresses requests come from
CallerIps == TrackedIps \cup {"127.0.0.1", "127.0.0.2"}

\* line 55: ip in _LOOPBACK or ip.startswith("127.")
TrackerSkips(ip) == ip \in {"127.0.0.1", "::1", "0.0.0.0", "localhost"} \/ ip = "127.0.0.2"

\* what the GeoIP lookup returns: nothing, or a country
GeoAnswers == {"none", "DE"}

\* no entry in _ips, no row in connected_ips
NoEntry == [first_seen |-> 0, last_seen |-> 0, request_count |-> 0, country |-> "none"]

NoFlush == [pc |-> "idle", todo |-> {}, staged |-> [ip \in TrackedIps |-> NoEntry]]

\* IPTrackerService(): lines 24-28, with an empty table
NewTracker ==
  [on |-> TRUE, seq |-> 0,
   ips |-> [ip \in TrackedIps |-> NoEntry], dirty |-> {},
   table |-> [ip \in TrackedIps |-> NoEntry],
   lookups |-> {}, flush |-> NoFlush]

\* lines 53-75
record(s, ip) ==
  IF TrackerSkips(ip) THEN s
  ELSE LET t == s.seq + 1
       IN  IF s.ips[ip] = NoEntry
             THEN [s EXCEPT !.seq = t,
                            !.ips[ip] = [first_seen |-> t, last_seen |-> t,
                                         request_count |-> 1, country |-> "none"],
                            !.lookups = @ \cup {ip},
                            !.dirty = @ \cup {ip}]
             ELSE [s EXCEPT !.seq = t,
                            !.ips[ip].last_seen = t,
                            !.ips[ip].request_count = @ + 1,
                            !.dirty = @ \cup {ip}]

\* lines 137-145
_lookup_country(s, ip, data) ==
  IF data # "none" /\ s.ips[ip] # NoEntry
    THEN [s EXCEPT !.ips[ip].country = data, !.dirty = @ \cup {ip}, !.lookups = @ \ {ip}]
    ELSE [s EXCEPT !.lookups = @ \ {ip}]

\* lines 90-100: INSERT ... ON CONFLICT(ip_address) DO UPDATE
upsert(row, entry) ==
  IF row = NoEntry THEN entry
  ELSE [row EXCEPT !.last_seen = entry.last_seen,
                   !.request_count = entry.request_count,
                   !.country = IF entry.country # "none" THEN entry.country ELSE row.country]

\* lines 79-83: the dirty set is copied and cleared
flush_begin(s) ==
  IF s.dirty = {} THEN s
  ELSE [s EXCEPT !.flush = [pc |-> "writing", todo |-> s.dirty, staged |-> s.table],
                 !.dirty = {}]

\* lines 85-109: one turn of the loop
flush_write(s, ip) ==
  [s EXCEPT !.flush.todo = @ \ {ip},
            !.flush.staged[ip] = IF s.ips[ip] = NoEntry THEN @ ELSE upsert(@, s.ips[ip])]

\* line 111: await db.commit()
flush_commit(s) == [s EXCEPT !.table = s.flush.staged, !.flush = NoFlush]

\* db.execute or db.commit raises: flush is left, the transaction is lost
flush_raise(s) == [s EXCEPT !.flush = NoFlush]

InitTracker ==
  /\ GateAtRest /\ call = NoCall /\ relay = NoRelay
  /\ pool = Unused /\ ipban = Unused /\ codes = Unused /\ admin = Unused
  /\ tracker = NewTracker

\* a request arrives from the address
TrackRecord ==
  /\ tracker.seq < MaxRecords
  /\ \E ip \in CallerIps : tracker' = record(tracker, ip)
  /\ UNCHANGED <<gate, call, relay, pool, ipban, codes, admin>>

\* the GeoIP lookup of an address completes
LookupDone ==
  /\ \E ip \in tracker.lookups, data \in GeoAnswers :
       tracker' = _lookup_country(tracker, ip, data)
  /\ UNCHANGED <<gate, call, relay, pool, ipban, codes, admin>>

\* the periodic flush starts
FlushBegin ==
  /\ tracker.flush.pc = "idle"
  /\ tracker' = flush_begin(tracker)
  /\ UNCHANGED <<gate, call, relay, pool, ipban, codes, admin>>

FlushWrite ==
  /\ tracker.flush.pc = "writing"
  /\ \E ip \in tracker.flush.todo : tracker' = flush_write(tracker, ip)
  /\ UNCHANGED <<gate, call, relay, pool, ipban, codes, admin>>

FlushCommit ==
  /\ tracker.flush.pc = "writing" /\ tracker.flush.todo = {}
  /\ tracker' = flush_commit(tracker)
  /\ UNCHANGED <<gate, call, relay, pool, ipban, codes, admin>>

FlushFails ==
  /\ tracker.flush.pc = "writing"
  /\ tracker' = flush_raise(tracker)
  /\ UNCHANGED <<gate, call, relay, pool, ipban, codes, admin>>

NextTracker ==
  \/ TrackRecord
  \/ LookupDone
  \/ FlushBegin
  \/ FlushWrite
  \/ FlushCommit
  \/ FlushFails

SpecTracker == InitTracker /\ [][NextTracker]_vars

\* the entry in memory and the row differ in request_count, last_seen or country
Differs(entry, row) ==
  \/ entry.request_count # row.request_count
  \/ entry.last_seen # row.last_seen
  \/ entry.country # row.country

\* C40: outside a flush in progress, every IP whose entry in memory differs from
\* its row in connected_ips is in the dirty set, under every interleaving of
\* record, GeoIP lookup completion and flush, also when a flush fails part-way
C40_NoLostUpdate ==
  (tracker.on /\ tracker.flush.pc = "idle") =>
    \A ip \in TrackedIps :
      Differs(tracker.ips[ip], tracker.table[ip]) => ip \in tracker.dirty

====
